---- MODULE Spec2Model ----
(***************************************************************************)
(* A verification model of the SolRoute quote engine:                      *)
(*   - pkg/router: SimpleRouter.GetBestPoolWithFilter, the concurrent      *)
(*     fan-out over the candidate pools and its reduction (SpecRouter);    *)
(*   - cmd/quote-service: QuoteCache, its cache map, reverse index and     *)
(*     the push-update path through pkg/subscription (SpecCache);          *)
(*   - pkg/pool/whirlpool: Decode and Quote on one shared pool object      *)
(*     (SpecTorn);                                                         *)
(*   - pkg/subscription: WebSocketClient, its subscription table and       *)
(*     reconnect (SpecWS).                                                 *)
(* Each specification moves its own group of variables and leaves the      *)
(* other groups at their initial value.                                    *)
(***************************************************************************)
EXTENDS Integers, Sequences, FiniteSets, TLC

VARIABLES
    \* ---- router fan-out (one GetBestPoolWithFilter call) ----
    rPools,      \* SimpleRouter.Pools: sequence of pool ids
    rOutcome,    \* what Pool.Quote returns for each pool of this call
    rReserve,    \* the output-side reserve (raw units) of each reserve pool
    rArgs,       \* the filter arguments of the call
    rPc,         \* "idle" | "collect" | "done"
    rPending,    \* pools whose quote goroutine has not yet sent its result
    resultChan,  \* buffered channel: sequence of quoteResult
    rClosed,     \* close(resultChan) has happened
    best,        \* local `best` (a pool id or NoPool)
    maxOut,      \* local `maxOut`
    rRet,        \* the returned (pool, amount, err)
    \* ---- quote cache service ----
    cache,        \* QuoteCache.cache: key -> CachedQuote
    poolToQuotes, \* QuoteCache.poolToQuotes: pool id -> list of QuotePair
    routerPools,  \* QuoteCache.router.Pools: sequence of pool objects
    poolCache,    \* SubscriptionManager.poolCache.pools: pool id -> entry
    handlers,     \* SubscriptionManager.handlers: pool ids with a handler
    calls,        \* the GetOrCalculateQuote / UpdateQuote calls in flight
    nCalls,       \* how many calls have begun
    nPushes,      \* how many push notifications have arrived
    \* ---- one Whirlpool object read and written concurrently ----
    tPool,        \* the object's FeeRate, Liquidity, SqrtPrice fields
    tUpdate,      \* the UpdatePoolAccount in progress (holding PoolCache.mu)
    tQuote,       \* the Quote call in progress (holding no lock)
    tSeen,        \* the complete field triples the object had during the Quote
    nUpdates,     \* how many updates have begun
    \* ---- WebSocket client ----
    conn,          \* WebSocketClient.conn: number of the current connection
    connected,     \* WebSocketClient.connected
    subscriptions, \* WebSocketClient.subscriptions: request id -> Subscription
    nextID,        \* WebSocketClient.nextID
    sent,          \* the accountSubscribe requests written to the current
                   \* connection, and those reconnect failed to write
    app,           \* the SubscribeAccount call in progress
    rc,            \* the reconnect call of the handleReconnection goroutine
    \* ---- quote service: flags and the /quote handler ----
    qcSlippageBps, \* QuoteCache.slippageBps, set from the -slippage flag
    req,           \* the /quote request being served
    nReqs,         \* how many requests have begun
    \* ---- pkg/sol RPCPool ----
    rpN,           \* len(RPCPool.clients)
    rpIndex,       \* RPCPool.index
    rpTickets,     \* how many GetClient calls have begun
    rpCallers,     \* the GetClient calls in flight
    rpDone,        \* the GetClient calls that returned: call number, client
    \* ---- cmd/quote-service StartPeriodicRefresh ----
    useWebSocket,     \* QuoteCache.useWebSocket
    fallbackInterval, \* the ticker's period, 0 before the ticker is made
    rf,               \* the refresh goroutine: position, ticks since the last
                      \* refresh began, ticks the connection has been down
    \* ---- single calls of the protocols and pools ----
    fetch,         \* a call of a constant-product protocol's FetchPoolsByPair
    cpq,           \* a call of a constant-product pool's Quote
    wq,            \* a call of WhirlpoolPool.Quote
    \* ---- a subscribed Pump AMM pool ----
    pump,          \* the PumpAMMPool object of the pool cache
    pumpCache,     \* the quote cache's entry and index for the pool's pair,
                   \* and the gateway reads made when recalculating it
    \* ---- the push reader of the WebSocket client ----
    socket,        \* the notifications the server sent that were not read yet
    arrived,       \* how many notifications the server has sent
    reader,        \* the readMessages goroutine: position, message, how many
                   \* notifications it has applied to the pool
    recalc,        \* the recalculation of the pool's pair: position
    rdPool,        \* the PumpAMMPool object of the pool cache
    rdOut,          \* the quote cache's entry for the pool's pair
    \* ---- the quote cache's gateway client ----
    solClient,     \* QuoteCache.solClient: the endpoint of the client, -1
                   \* before NewQuoteCache
    gwLog,          \* the gateway calls made: by whom, on which endpoint
    \* ---- the responses of the WebSocket server ----
    answered,       \* the requests, by connection and request id, whose
                   \* response the reader has processed
    \* ---- the server's subscriptions and the notifications delivered ----
    serverSubs,    \* per connection, the id the server assigned to the
                   \* subscription of each request, 0 if none
    delivered,      \* the last notification handed to a handler: its server
                   \* id, and the subscription and account it was handed to
    \* ---- the read loop of the WebSocket client ----
    readLoop,      \* the readMessages goroutine: position, and the
                   \* connection it took from c.conn
    broken,         \* the connections that have broken
    \* ---- the subscription manager ----
    smSubscriptions, \* SubscriptionManager.subscriptions: the accounts
                     \* with a subscription
    smPools          \* the pools of the manager's pool cache

routerVars == <<rPools, rOutcome, rReserve, rArgs, rPc, rPending, resultChan, rClosed, best, maxOut, rRet>>

cacheVars == <<cache, poolToQuotes, routerPools, poolCache, handlers, calls, nCalls, nPushes>>

tornVars == <<tPool, tUpdate, tQuote, tSeen, nUpdates>>

wsVars == <<conn, connected, subscriptions, nextID, sent, app, rc>>

httpVars == <<qcSlippageBps, req, nReqs>>

rpcVars == <<rpN, rpIndex, rpTickets, rpCallers, rpDone>>

refreshVars == <<useWebSocket, fallbackInterval, rf>>

unitVars == <<fetch, cpq, wq>>

pumpVars == <<pump, pumpCache>>

readerVars == <<socket, arrived, reader, recalc, rdPool, rdOut>>

gatewayVars == <<solClient, gwLog>>

confirmVars == <<answered>>

notifyVars == <<serverSubs, delivered>>

loopVars == <<readLoop, broken>>

mgrVars == <<smSubscriptions, smPools>>

vars == <<routerVars, cacheVars, tornVars, wsVars, httpVars, rpcVars, refreshVars,
          unitVars, pumpVars, readerVars, gatewayVars, confirmVars, notifyVars, loopVars, mgrVars>>

\* what the steps of one part of the program leave alone: the other parts
OthersOfRouter == <<cacheVars, tornVars, wsVars, httpVars, rpcVars, refreshVars, unitVars, pumpVars, readerVars, gatewayVars, confirmVars, notifyVars, loopVars, mgrVars>>
OthersOfCache == <<routerVars, tornVars, wsVars, httpVars, rpcVars, refreshVars, unitVars, pumpVars, readerVars, gatewayVars, confirmVars, notifyVars, loopVars, mgrVars>>
OthersOfTorn == <<routerVars, cacheVars, wsVars, httpVars, rpcVars, refreshVars, unitVars, pumpVars, readerVars, gatewayVars, confirmVars, notifyVars, loopVars, mgrVars>>
OthersOfWS == <<routerVars, cacheVars, tornVars, httpVars, rpcVars, refreshVars, unitVars, pumpVars, readerVars, gatewayVars, confirmVars, notifyVars, loopVars, mgrVars>>
OthersOfHTTP == <<routerVars, tornVars, wsVars, rpcVars, refreshVars, unitVars, pumpVars, readerVars, gatewayVars, confirmVars, notifyVars, loopVars, mgrVars>>
OthersOfRefresh == <<routerVars, tornVars, httpVars, rpcVars, unitVars, pumpVars, readerVars, gatewayVars, confirmVars, notifyVars, loopVars, mgrVars>>
OthersOfUnit == <<routerVars, cacheVars, tornVars, wsVars, httpVars, rpcVars, refreshVars, pumpVars, readerVars, gatewayVars, confirmVars, notifyVars, loopVars, mgrVars>>
OthersOfPump == <<routerVars, cacheVars, tornVars, wsVars, httpVars, rpcVars, refreshVars,
                  unitVars, readerVars, gatewayVars, confirmVars, notifyVars, loopVars, mgrVars>>
OthersOfReader == <<routerVars, cacheVars, tornVars, wsVars, httpVars, rpcVars, refreshVars,
                    unitVars, pumpVars, gatewayVars, confirmVars, notifyVars, loopVars, mgrVars>>
OthersOfRPC == <<routerVars, cacheVars, tornVars, wsVars, httpVars, refreshVars, unitVars, pumpVars, readerVars, gatewayVars, confirmVars, notifyVars, loopVars, mgrVars>>
OthersOfGateway == <<routerVars, cacheVars, tornVars, wsVars, httpVars, rpcVars, refreshVars, unitVars, pumpVars, readerVars, confirmVars, notifyVars, loopVars, mgrVars>>
OthersOfConfirm == <<routerVars, cacheVars, tornVars, wsVars, httpVars, rpcVars, refreshVars, unitVars, pumpVars, readerVars, gatewayVars, notifyVars, loopVars, mgrVars>>
OthersOfWSNotify == <<routerVars, cacheVars, tornVars, httpVars, rpcVars, refreshVars, unitVars, pumpVars, readerVars, gatewayVars, confirmVars, loopVars, mgrVars>>
OthersOfNotify == <<routerVars, cacheVars, tornVars, wsVars, httpVars, rpcVars, refreshVars, unitVars, pumpVars, readerVars, gatewayVars, confirmVars, loopVars, mgrVars>>
OthersOfLoop == <<routerVars, cacheVars, tornVars, wsVars, httpVars, rpcVars, refreshVars, unitVars, pumpVars, readerVars, gatewayVars, confirmVars, notifyVars, mgrVars>>
OthersOfMgr == <<routerVars, cacheVars, tornVars, wsVars, httpVars, rpcVars, refreshVars, unitVars, pumpVars, readerVars, gatewayVars, confirmVars, notifyVars, loopVars>>

----------------------------------------------------------------------------
(* Bounds                                                                  *)

\* largest outAmount a pool quote of the router specification returns
MaxOut == 2

\* largest slot number a push notification carries
MaxSlot == 1

\* how many quote calls (on-demand or refresh) a behaviour of concurrent
\* callers begins
MaxCalls == 2

\* how many quote calls a behaviour of one caller begins
MaxSeqCalls == 3

\* how many quote calls a behaviour with push notifications begins
MaxPushCalls == 2

\* how many push notifications a behaviour delivers
MaxPushes == 2

\* number of fraction bits of the sqrt-price fixed point (64 in the program:
\* Q64 = 2^64; the model keeps the arithmetic and shortens the word)
QBits == 2

\* how many account updates are decoded while quotes run on the same object
MaxUpdates == 2

\* how many subscriptions the application requests (request ids 1..MaxSubs)
MaxSubs == 2

\* how many connections the client opens after the first
MaxReconnects == 1

\* /quote requests served
MaxRequests == 2

\* calls and push notifications when the reverse index is followed
MaxIdxCalls == 2

MaxIdxPushes == 1

\* RPCPool: endpoints, width of the index counter in bits (64 in the code),
\* GetClient calls
MaxEndpoints == 3

IdxBits == 3

MaxGetCalls == 9

\* periodic refresh: refreshes run by the ticker
MaxRefreshes == 2

\* width in bits of the unsigned fee fields of a pool account (64 in the code)
FeeBits == 15

\* push notifications on the accounts of the Pump AMM pool
MaxPumpPushes == 3

\* how many notifications the server sends to the push reader
MaxReaderMsgs == 3

\* how many gateway calls the quote cache makes
MaxGatewayCalls == 6

----------------------------------------------------------------------------
(* Shared helpers                                                          *)

NoPool == "none"

Range(s) == {s[i] : i \in DOMAIN s}

\* the subsequence of s whose elements satisfy membership in S, order kept
RECURSIVE SelectIn(_, _)
SelectIn(s, S) ==
    IF s = <<>> THEN <<>>
    ELSE IF Head(s) \in S THEN <<Head(s)>> \o SelectIn(Tail(s), S)
    ELSE SelectIn(Tail(s), S)

----------------------------------------------------------------------------
(* pkg/router/simple_router.go                                             *)

\* The pools a router can hold, in a fixed discovery order, with the
\* protocol each belongs to (Pool.ProtocolName()).
RouterPoolIds == <<"P1", "P2", "P3">>

\* P3 is a Pump AMM pool, whose name is pkg.ProtocolNamePumpAmm.
ProtocolName(p) ==
    CASE p = "P2" -> "orca"
      [] p = "P3" -> "pump_amm"
      [] OTHER    -> "whirlpool"

\* the Go type of the pool object, as the type switch of getPoolLiquidity
\* tells them apart
PoolType(p) == IF p = "P3" THEN "PumpAMMPool" ELSE "other"

\* Pool.Quote as the router sees it: (outAmount, err)
QuoteOutcomes ==
    {[err |-> TRUE, out |-> 0]} \cup {[err |-> FALSE, out |-> a] : a \in 0..MaxOut}

\* filter arguments: dexes and excludeDexes lists (one with a name that
\* differs from a protocol name by case only) and minLiquidityUSD values
DexLists == {<<>>, <<"whirlpool">>, <<"Whirlpool">>, <<"whirlpool", "pump_amm">>}
ExcludeLists == {<<>>, <<"orca">>}

\* getPoolLiquidity returns this for a pool without a reserve to read
SentinelLiquidity == 1000000

\* raw units per dollar: getPoolLiquidity divides the reserve by 1e6
RawPerUSD == 1000000

\* the reserves a Pump AMM pool can hold (raw units of the output token)
Reserves == {0, 2 * RawPerUSD, 5 * RawPerUSD + 1}

\* minLiquidityUSD values, in whole dollars: no floor, floors between the
\* reserves, a floor above the sentinel
MinLiquidities == {0, 3, 5, SentinelLiquidity + 1}

\* getPoolLiquidity in whole dollars, rounded down: for a whole-dollar floor
\* m, float64(raw) / 1e6 < m exactly when raw \div 1e6 < m
getPoolLiquidity(p) ==
    IF PoolType(p) = "PumpAMMPool"
    THEN IF rReserve[p] = 0 THEN 0 ELSE rReserve[p] \div RawPerUSD
    ELSE SentinelLiquidity

\* a filter that forgets the excludeDexes list
filterPoolsNoExclude(pools, dexes, excludeDexes, minLiquidityUSD) ==
    IF Len(dexes) = 0 /\ Len(excludeDexes) = 0 /\ minLiquidityUSD = 0 THEN pools
    ELSE SelectIn(pools,
            {p \in Range(pools) :
                /\ (Len(dexes) > 0 => ProtocolName(p) \in Range(dexes))
                /\ (minLiquidityUSD > 0 => ~(getPoolLiquidity(p) < minLiquidityUSD))})

\* filterPools: the pools of r.Pools that pass dexes, excludeDexes and the
\* liquidity floor
filterPools(pools, dexes, excludeDexes, minLiquidityUSD) ==
    IF Len(dexes) = 0 /\ Len(excludeDexes) = 0 /\ minLiquidityUSD = 0 THEN pools
    ELSE SelectIn(pools,
            {p \in Range(pools) :
                /\ (Len(dexes) > 0 => ProtocolName(p) \in Range(dexes))
                /\ (Len(excludeDexes) > 0 => ProtocolName(p) \notin Range(excludeDexes))
                /\ (minLiquidityUSD > 0 => ~(getPoolLiquidity(p) < minLiquidityUSD))})

\* a collection loop that keeps the last successful result instead of the
\* largest
CollectStepLastWins(b, m, result) ==
    IF result.err THEN <<b, m>>
    ELSE IF result.out > 0 THEN <<result.pool, result.out>>
    ELSE <<b, m>>

\* one iteration of `for result := range resultChan`: the (best, maxOut)
\* pair after looking at one result
CollectStep(b, m, result) ==
    IF result.err THEN <<b, m>>
    ELSE IF result.out > m THEN <<result.pool, result.out>>
    ELSE <<b, m>>

\* the whole collection loop over results in their order of arrival
RECURSIVE Reduce(_, _, _)
Reduce(b, m, results) ==
    IF results = <<>> THEN <<b, m>>
    ELSE LET bm == CollectStep(b, m, Head(results))
         IN Reduce(bm[1], bm[2], Tail(results))

\* the return statement after the loop
ReturnOf(b, m) ==
    IF b = NoPool THEN [pool |-> NoPool, out |-> 0, err |-> "no route found"]
    ELSE [pool |-> b, out |-> m, err |-> "nil"]

NoRet == [pool |-> NoPool, out |-> 0, err |-> "pending"]

\* GetBestPoolWithFilter up to the launch of the goroutines
GetBestPoolWithFilter(dexes, excludeDexes, minLiquidityUSD) ==
    /\ rPc = "idle"
    /\ rArgs' = [dexes |-> dexes, excludeDexes |-> excludeDexes,
                 minLiquidityUSD |-> minLiquidityUSD]
    /\ LET filteredPools == filterPools(rPools, dexes, excludeDexes, minLiquidityUSD)
       IN IF Len(filteredPools) = 0
          THEN /\ rPc' = "done"
               /\ rRet' = [pool |-> NoPool, out |-> 0,
                           err |-> "no pools found after filtering"]
               /\ UNCHANGED <<rPending, resultChan, rClosed, best, maxOut>>
          ELSE /\ rPc' = "collect"
               /\ rPending' = Range(filteredPools)
               /\ resultChan' = <<>>
               /\ rClosed' = FALSE
               /\ best' = NoPool
               /\ maxOut' = 0
               /\ rRet' = NoRet
    /\ UNCHANGED <<rPools, rOutcome, rReserve>>
    /\ UNCHANGED OthersOfRouter

\* an unbuffered result channel
ChanCapUnbuffered(filteredPools) == 0

\* make(chan quoteResult, len(filteredPools)): the capacity of the channel
ChanCap(filteredPools) == Len(filteredPools)

\* the filtered pools of the call in progress
FilteredNow == filterPools(rPools, rArgs.dexes, rArgs.excludeDexes, rArgs.minLiquidityUSD)

\* one quote goroutine: p.Quote(...) then resultChan <- quoteResult{...};
\* the send waits while the channel is full
QuoteTask(p) ==
    /\ rPc = "collect"
    /\ p \in rPending
    /\ Len(resultChan) < ChanCap(FilteredNow)
    /\ rPending' = rPending \ {p}
    /\ resultChan' = Append(resultChan,
                        [pool |-> p, out |-> rOutcome[p].out, err |-> rOutcome[p].err])
    /\ UNCHANGED <<rPools, rOutcome, rReserve, rArgs, rPc, rClosed, best, maxOut, rRet>>
    /\ UNCHANGED OthersOfRouter

\* the waiter goroutine: wg.Wait(); close(resultChan)
CloseChan ==
    /\ rPc = "collect"
    /\ rPending = {}
    /\ ~rClosed
    /\ rClosed' = TRUE
    /\ UNCHANGED <<rPools, rOutcome, rReserve, rArgs, rPc, rPending, resultChan, best, maxOut, rRet>>
    /\ UNCHANGED OthersOfRouter

\* the collector receives one result
Collect ==
    /\ rPc = "collect"
    /\ resultChan # <<>>
    /\ LET bm == CollectStep(best, maxOut, Head(resultChan))
       IN /\ best' = bm[1]
          /\ maxOut' = bm[2]
    /\ resultChan' = Tail(resultChan)
    /\ UNCHANGED <<rPools, rOutcome, rReserve, rArgs, rPc, rPending, rClosed, rRet>>
    /\ UNCHANGED OthersOfRouter

\* the range loop ends on the closed, drained channel; the call returns
Return ==
    /\ rPc = "collect"
    /\ resultChan = <<>>
    /\ rClosed
    /\ rPc' = "done"
    /\ rRet' = ReturnOf(best, maxOut)
    /\ UNCHANGED <<rPools, rOutcome, rReserve, rArgs, rPending, resultChan, rClosed, best, maxOut>>
    /\ UNCHANGED OthersOfRouter

RouterPoolSets == SUBSET Range(RouterPoolIds)

InitRouter ==
    /\ \E S \in RouterPoolSets : rPools = SelectIn(RouterPoolIds, S)
    /\ rOutcome \in [Range(RouterPoolIds) -> QuoteOutcomes]
    /\ rReserve \in [{p \in Range(RouterPoolIds) : PoolType(p) = "PumpAMMPool"} -> Reserves]
    /\ rArgs = [dexes |-> <<>>, excludeDexes |-> <<>>, minLiquidityUSD |-> 0]
    /\ rPc = "idle"
    /\ rPending = {}
    /\ resultChan = <<>>
    /\ rClosed = FALSE
    /\ best = NoPool
    /\ maxOut = 0
    /\ rRet = NoRet

NextRouter ==
    \/ \E d \in DexLists, x \in ExcludeLists, m \in MinLiquidities :
          GetBestPoolWithFilter(d, x, m)
    \/ \E p \in Range(RouterPoolIds) : QuoteTask(p)
    \/ CloseChan
    \/ Collect
    \/ Return


----------------------------------------------------------------------------
(* pkg/pool/whirlpool: the pool object and its quote                       *)

\* amount.Mul(feeRate).Quo(1000000)
FeeDenominator == 1000000

\* q64BigInt = 1 << 64 in the program
Q64 == 2 ^ QBits

\* the minimum length Decode accepts
WhirlpoolDataSize == 653

\* The fields of a WhirlpoolPool that Quote reads.
PoolStates ==
    { [FeeRate |-> 0,     Liquidity |-> 5, SqrtPrice |-> Q64],
      [FeeRate |-> 30000, Liquidity |-> 7, SqrtPrice |-> 2 * Q64],
      [FeeRate |-> 0,     Liquidity |-> 0, SqrtPrice |-> Q64] }

\* Account bytes as a push notification or getProgramAccounts delivers them:
\* their length and the fields Decode copies out of them.
AccountBytes(len, st) ==
    [len |-> len, FeeRate |-> st.FeeRate, Liquidity |-> st.Liquidity,
     SqrtPrice |-> st.SqrtPrice]

ShortData == AccountBytes(100, [FeeRate |-> 0, Liquidity |-> 0, SqrtPrice |-> 0])
ValidData == {AccountBytes(WhirlpoolDataSize, st) : st \in PoolStates}

\* the pool fields discovery finds on chain (pools without liquidity are
\* found too, but the model lets only push updates drain a pool)
DiscoveryStates == {st \in PoolStates : st.Liquidity > 0}
BadBase64 == [len |-> -1, FeeRate |-> 0, Liquidity |-> 0, SqrtPrice |-> 0]

\* WhirlpoolPool.Decode: the new fields, or an error on short input.
Decode(st, data) ==
    IF data.len < WhirlpoolDataSize
    THEN [err |-> TRUE, st |-> st]
    ELSE [err |-> FALSE,
          st |-> [FeeRate |-> data.FeeRate, Liquidity |-> data.Liquidity,
                  SqrtPrice |-> data.SqrtPrice]]

\* WhirlpoolPool.UpdateFromAccountData: a vault update only touches the
\* cache-tracking fields (read by no quote); the pool account is decoded.
UpdateFromAccountData(st, kind, data) ==
    IF kind = "pool" THEN Decode(st, data) ELSE [err |-> FALSE, st |-> st]

\* a quote at the square-root price instead of the price
QuoteAtSqrtPrice(st, mintA, inputMint, amount) ==
    IF amount = 0 THEN [err |-> FALSE, out |-> 0]
    ELSE LET amountAfterFee == amount - (amount * st.FeeRate) \div FeeDenominator
         IN IF st.Liquidity = 0 THEN [err |-> TRUE, out |-> 0]
            ELSE IF inputMint = mintA
                 THEN [err |-> FALSE, out |-> (amountAfterFee * st.SqrtPrice) \div Q64]
                 ELSE IF st.SqrtPrice = 0 THEN [err |-> TRUE, out |-> 0]
                 ELSE [err |-> FALSE, out |-> (amountAfterFee * Q64) \div st.SqrtPrice]

\* WhirlpoolPool.Quote on the fields st of a pool whose first mint is mintA.
\* The context argument is not read.
Quote(st, mintA, inputMint, amount) ==
    IF amount = 0 THEN [err |-> FALSE, out |-> 0]
    ELSE LET zeroForOne == (inputMint = mintA)
             feeAmount == (amount * st.FeeRate) \div FeeDenominator
             amountAfterFee == amount - feeAmount
             sqrtPriceSquared == st.SqrtPrice * st.SqrtPrice
             q128 == Q64 * Q64
         IN IF st.Liquidity = 0 THEN [err |-> TRUE, out |-> 0]
            ELSE IF zeroForOne
                 THEN [err |-> FALSE, out |-> (amountAfterFee * sqrtPriceSquared) \div q128]
                 ELSE IF sqrtPriceSquared = 0 THEN [err |-> TRUE, out |-> 0]
                 ELSE [err |-> FALSE, out |-> (amountAfterFee * q128) \div sqrtPriceSquared]

----------------------------------------------------------------------------
(* The chain as discovery sees it                                          *)

\* the Whirlpool accounts on chain, in the order getProgramAccounts lists them
ChainPoolIds == <<"W1", "W2", "W3">>
ChainPools == Range(ChainPoolIds)

TokenMintA(p) == CASE p = "W1" -> "SOL" [] p = "W2" -> "USDC" [] OTHER -> "SOL"
TokenMintB(p) == CASE p = "W1" -> "USDC" [] p = "W2" -> "SOL" [] OTHER -> "BONK"

\* FetchPoolsByPair: the accounts with (mintA, mintB) = (base, quote), then
\* those of the swapped ordering
FetchPoolsByPair(baseMint, quoteMint) ==
    SelectIn(ChainPoolIds,
        {p \in ChainPools : TokenMintA(p) = baseMint /\ TokenMintB(p) = quoteMint})
    \o SelectIn(ChainPoolIds,
        {p \in ChainPools : TokenMintA(p) = quoteMint /\ TokenMintB(p) = baseMint})

----------------------------------------------------------------------------
(* cmd/quote-service/cache.go with pkg/subscription                        *)

Calls == {"c1", "c2"}

\* the (inputMint, outputMint, amount) triples requests are made for
RequestKeys == {<<"SOL", "USDC", "100">>, <<"SOL", "BONK", "100">>}

\* triples with a malformed mint or an amount that is not a positive integer
MalformedKeys ==
    {<<"SOL-USDC", "USDC", "100">>, <<"SOL", "USDC-100", "100">>,
     <<"SOL", "USDC", "0">>, <<"SOL", "USDC", "1e2">>}

\* the strings that are the base58 text of a 32-byte key
Mints == {"SOL", "USDC", "BONK"}

\* solana.PublicKeyFromBase58: err # nil for any other string
PublicKeyFromBase58(s) == [err |-> s \notin Mints]

\* math.NewIntFromString: (value, ok) of a decimal integer text
NewIntFromString(s) ==
    CASE s = "100"  -> [ok |-> TRUE, val |-> 100]
      [] s = "0"    -> [ok |-> TRUE, val |-> 0]
      [] OTHER      -> [ok |-> FALSE, val |-> 0]

\* a parsing that checks the two mints only
ParseInputsMintsOnly(key) ==
    IF PublicKeyFromBase58(key[1]).err THEN "invalid input mint"
    ELSE IF PublicKeyFromBase58(key[2]).err THEN "invalid output mint"
    ELSE "nil"

\* lines 133-147 (and 288-301): the error the input parsing returns
ParseInputs(key) ==
    IF PublicKeyFromBase58(key[1]).err THEN "invalid input mint"
    ELSE IF PublicKeyFromBase58(key[2]).err THEN "invalid output mint"
    ELSE IF ~NewIntFromString(key[3]).ok \/ NewIntFromString(key[3]).val <= 0
         THEN "invalid amount"
    ELSE "nil"

\* the pairs of the periodic refresh (main.go quotePairs)
RefreshKeys == {<<"SOL", "USDC", "100">>}

\* the -slippage flag's default
slippageBps == 50

NoQuote == [out |-> -1, thr |-> -1, bps |-> -1, pool |-> NoPool]
NoEntry == [st |-> [FeeRate |-> 0, Liquidity |-> 0, SqrtPrice |-> 0], LastSlot |-> -1]
NoSt == [FeeRate |-> 0, Liquidity |-> 0, SqrtPrice |-> 0]

\* no previous call to compare with
NoPrev == [key |-> <<"", "", "">>, dexes |-> <<>>, excludeDexes |-> <<>>, out |-> -1]

\* A call: its arguments, its position, its result, and for the claims the
\* calls on the same key it overlapped with while the key was absent (with),
\* the pools its fan-out quoted (quoted), the successful call of the same
\* caller that ended right before it began (prev) and whether a push
\* notification arrived since that call began (dirty).
IdleCall ==
    [pc |-> "idle", kind |-> "none", key |-> <<"", "", "">>, dexes |-> <<>>,
     excludeDexes |-> <<>>, cancelled |-> FALSE, with |-> {}, quoted |-> {},
     res |-> NoRet, prev |-> NoPrev, dirty |-> FALSE]

\* getCacheKey: fmt.Sprintf("%s-%s-%s", inputMint, outputMint, amount)
getCacheKey(inputMint, outputMint, amount) ==
    inputMint \o "-" \o outputMint \o "-" \o amount

\* the cache key of a triple
KeyOf(k) == getCacheKey(k[1], k[2], k[3])

\* the keys of the cache map the model follows
CacheKeys == {KeyOf(k) : k \in RequestKeys \cup MalformedKeys}

\* math.Int.Quo with a positive divisor: the quotient truncated toward zero
Quo(a, b) == IF a >= 0 THEN a \div b ELSE -((-a) \div b)

\* a threshold rounded up instead of down
minAmountOutCeil(amountOut) ==
    (amountOut * (10000 - qcSlippageBps) + 9999) \div 10000

\* minAmountOut := amountOut * (10000 - qc.slippageBps) / 10000
minAmountOut(amountOut) == Quo(amountOut * (10000 - qcSlippageBps), 10000)

CachedQuote(poolId, amountOut) ==
    [out |-> amountOut, thr |-> minAmountOut(amountOut), bps |-> qcSlippageBps,
     pool |-> poolId]

\* the fields of a pool object of router.Pools: an object shared with the
\* pool cache reads the pool cache entry's fields
ObjState(o) == IF o.alias THEN poolCache[o.id].st ELSE o.st

IdsOf(pools) == [i \in DOMAIN pools |-> pools[i].id]

ObjOf(pools, id) == pools[CHOOSE i \in DOMAIN pools : pools[i].id = id]

\* all orders in which the elements of S can arrive
Orders(S) == {s \in [1..Cardinality(S) -> S] : Range(s) = S}

\* a reverse index that records the pair under the first pool on chain
\* instead of the winning pool
TrackPairUnderFirst(index, poolId, key) ==
    IF key \in Range(index[ChainPoolIds[1]]) THEN index
    ELSE [index EXCEPT ![ChainPoolIds[1]] = Append(@, key)]

\* the `found` loop and append of the reverse index
TrackPair(index, poolId, key) ==
    IF key \in Range(index[poolId]) THEN index
    ELSE [index EXCEPT ![poolId] = Append(@, key)]

\* GetOrCalculateQuote, lines 119-147: the cache check under the read lock,
\* then the parsing of the inputs.
\* The caller either is idle or has just taken the result of its last call.
GetOrCalculateQuote(c, key, dexes, excludeDexes) ==
    /\ calls[c].pc \in {"idle", "done"}
    /\ LET noFilters == Len(dexes) = 0 /\ Len(excludeDexes) = 0
           inFlight == {d \in Calls \ {c} :
                           /\ calls[d].pc \in {"hasPool", "query", "fanout", "store"}
                           /\ calls[d].kind = "ondemand"
                           /\ calls[d].key = key}
           last == calls[c]
           prev == IF /\ last.pc = "done" /\ last.kind = "ondemand"
                      /\ last.res.err = "nil" /\ ~last.dirty
                   THEN [key |-> last.key, dexes |-> last.dexes,
                         excludeDexes |-> last.excludeDexes, out |-> last.res.out]
                   ELSE NoPrev
           me == [IdleCall EXCEPT !.kind = "ondemand", !.key = key, !.dexes = dexes,
                                  !.excludeDexes = excludeDexes, !.prev = prev]
           hit == cache[KeyOf(key)]
           mine == IF noFilters /\ hit # NoQuote
                   THEN [me EXCEPT !.pc = "done",
                                   !.res = [pool |-> hit.pool, out |-> hit.out,
                                            err |-> "nil"]]
                   ELSE IF ParseInputs(key) # "nil"
                   THEN [me EXCEPT !.pc = "done",
                                   !.res = [pool |-> NoPool, out |-> 0,
                                            err |-> ParseInputs(key)]]
                   ELSE [me EXCEPT !.pc = "hasPool",
                                   !.with = IF hit = NoQuote THEN inFlight ELSE {}]
       IN calls' = [d \in Calls |->
                       IF d = c THEN mine ELSE [calls[d] EXCEPT !.with = @ \ {c}]]
    /\ nCalls' = nCalls + 1
    /\ UNCHANGED <<cache, poolToQuotes, routerPools, poolCache, handlers, nPushes>>
    /\ UNCHANGED OthersOfCache

\* a pool check that never finds the pair and always rediscovers
CheckHasPoolNeverKnown(c) ==
    /\ calls[c].pc = "hasPool"
    /\ calls' = [calls EXCEPT ![c].pc = "query"]
    /\ UNCHANGED <<cache, poolToQuotes, routerPools, poolCache, handlers, nCalls, nPushes>>
    /\ UNCHANGED OthersOfCache

\* lines 152-166: is some indexed pair of the same (input, output)?
CheckHasPool(c) ==
    /\ calls[c].pc = "hasPool"
    /\ LET hasPool == \E p \in ChainPools : \E q \in Range(poolToQuotes[p]) :
                          q[1] = calls[c].key[1] /\ q[2] = calls[c].key[2]
       IN calls' = [calls EXCEPT ![c].pc = IF hasPool THEN "fanout" ELSE "query"]
    /\ UNCHANGED <<cache, poolToQuotes, routerPools, poolCache, handlers, nCalls, nPushes>>
    /\ UNCHANGED OthersOfCache

\* UpdateQuote up to its pool query: the parsing of the inputs, no cache
\* check, no hasPool check
UpdateQuote(c, key) ==
    /\ calls[c].pc = "idle"
    /\ calls' = [calls EXCEPT ![c] =
                    IF ParseInputs(key) # "nil"
                    THEN [IdleCall EXCEPT !.pc = "done", !.kind = "refresh", !.key = key,
                                          !.res = [pool |-> NoPool, out |-> 0,
                                                   err |-> ParseInputs(key)]]
                    ELSE [IdleCall EXCEPT !.pc = "query", !.kind = "refresh",
                                          !.key = key]]
    /\ nCalls' = nCalls + 1
    /\ UNCHANGED <<cache, poolToQuotes, routerPools, poolCache, handlers, nPushes>>
    /\ UNCHANGED OthersOfCache

\* router.QueryAllPools (it replaces router.Pools by freshly decoded objects)
\* followed by the subscription loop: SubscribePool puts a pool that is not
\* yet in the pool cache there and RegisterHandler records its handler.
QueryAllPools(c, fetched, onChain) ==
    /\ calls[c].pc = "query"
    /\ LET ids == IF fetched THEN FetchPoolsByPair(calls[c].key[1], calls[c].key[2])
                  ELSE <<>>
           new == {ids[i] : i \in {j \in DOMAIN ids : poolCache[ids[j]] = NoEntry}}
       IN /\ routerPools' =
                [i \in DOMAIN ids |->
                    IF ids[i] \in new
                    THEN [id |-> ids[i], alias |-> TRUE, st |-> NoSt]
                    ELSE [id |-> ids[i], alias |-> FALSE, st |-> onChain[ids[i]]]]
          /\ poolCache' = [p \in ChainPools |->
                              IF p \in new THEN [st |-> onChain[p], LastSlot |-> 0]
                              ELSE poolCache[p]]
          /\ handlers' = handlers \cup new
          /\ calls' = [calls EXCEPT ![c] =
                IF Len(ids) = 0
                THEN [@ EXCEPT !.pc = "done",
                               !.res = [pool |-> NoPool, out |-> 0,
                                        err |-> IF calls[c].kind = "refresh"
                                                THEN "no pools found"
                                                ELSE "no pools found for this pair"]]
                ELSE [@ EXCEPT !.pc = "fanout"]]
    /\ UNCHANGED <<cache, poolToQuotes, nCalls, nPushes>>
    /\ UNCHANGED OthersOfCache

\* the quoteResult of one pool object for the call's tokenIn and amountIn
QuoteResult(pools, id, key) ==
    LET q == Quote(ObjState(ObjOf(pools, id)), TokenMintA(id), key[1],
                   NewIntFromString(key[3]).val)
    IN [pool |-> id, out |-> q.out, err |-> q.err]

\* router.GetBestPoolWithFilter as the cache calls it (lines 198-202): the
\* quotes arrive in some order and are reduced by the collection loop.  The
\* Whirlpool quotes do not read the context, so a cancelled context changes
\* nothing of what is returned.
FanOut(c, order) ==
    /\ calls[c].pc = "fanout"
    /\ LET filteredPools == filterPools(IdsOf(routerPools), calls[c].dexes,
                                        calls[c].excludeDexes, 0)
       IN IF Len(filteredPools) = 0
          THEN /\ order = <<>>
               /\ calls' = [calls EXCEPT ![c].pc = "done",
                                         ![c].res = [pool |-> NoPool, out |-> 0,
                                             err |-> "no pools found after filtering"]]
          ELSE /\ order \in Orders(Range(filteredPools))
               /\ LET results == [i \in DOMAIN order |->
                                     QuoteResult(routerPools, order[i], calls[c].key)]
                      bm == Reduce(NoPool, 0, results)
                      ret == ReturnOf(bm[1], bm[2])
                  IN calls' = [calls EXCEPT
                                  ![c].pc = IF ret.err = "nil" THEN "store" ELSE "done",
                                  ![c].quoted = Range(filteredPools),
                                  ![c].res = ret]
    /\ UNCHANGED <<cache, poolToQuotes, routerPools, poolCache, handlers, nCalls, nPushes>>
    /\ UNCHANGED OthersOfCache

\* lines 249-273 (and 383-402): store the quote and track the winning pool
Store(c) ==
    /\ calls[c].pc = "store"
    /\ cache' = [cache EXCEPT ![KeyOf(calls[c].key)] =
                    CachedQuote(calls[c].res.pool, calls[c].res.out)]
    /\ poolToQuotes' = TrackPair(poolToQuotes, calls[c].res.pool, calls[c].key)
    /\ calls' = [calls EXCEPT ![c].pc = "done",
                              ![c].res.out = cache'[KeyOf(calls[c].key)].out]
    /\ UNCHANGED <<routerPools, poolCache, handlers, nCalls, nPushes>>
    /\ UNCHANGED OthersOfCache

\* the caller takes the result
Finish(c) ==
    /\ calls[c].pc = "done"
    /\ calls' = [d \in Calls |->
                    IF d = c THEN IdleCall
                    ELSE [calls[d] EXCEPT !.with = @ \ {c}]]
    /\ UNCHANGED <<cache, poolToQuotes, routerPools, poolCache, handlers, nCalls, nPushes>>
    /\ UNCHANGED OthersOfCache

\* the caller's context is cancelled while the fan-out is in progress
Cancel(c) ==
    /\ calls[c].pc = "fanout"
    /\ calls[c].kind = "ondemand"
    /\ ~calls[c].cancelled
    /\ calls' = [calls EXCEPT ![c].cancelled = TRUE]
    /\ UNCHANGED <<cache, poolToQuotes, routerPools, poolCache, handlers, nCalls, nPushes>>
    /\ UNCHANGED OthersOfCache

\* PoolCache.UpdatePoolAccount on an entry: LastSlot is recorded, then the
\* pool's UpdateFromAccountData runs
UpdatePoolAccount(entry, kind, data, slot) ==
    LET u == UpdateFromAccountData(entry.st, kind, data)
    IN [err |-> u.err, entry |-> [st |-> u.st, LastSlot |-> slot]]

\* recalculateQuote: parse the pair, quote the pool-cache object and
\* overwrite the entry; a failing quote leaves the entry as it is
recalculateQuote(cch, key, poolID, st) ==
    LET q == Quote(st, TokenMintA(poolID), key[1], NewIntFromString(key[3]).val)
    IN IF ParseInputs(key) # "nil" \/ q.err THEN cch
       ELSE [cch EXCEPT ![KeyOf(key)] = CachedQuote(poolID, q.out)]

\* handlePoolUpdate: recalculate every pair indexed under the pool, in order
RECURSIVE handlePoolUpdate(_, _, _, _)
handlePoolUpdate(cch, quotePairs, poolID, st) ==
    IF quotePairs = <<>> THEN cch
    ELSE handlePoolUpdate(recalculateQuote(cch, Head(quotePairs), poolID, st),
                          Tail(quotePairs), poolID, st)

\* SubscriptionManager.handleAccountUpdate for a notification on one of the
\* accounts of pool p (kind "pool" or "vault"): base64-decode, update the
\* pool cache, then run the registered handler
handleAccountUpdate(p, kind, data, slot) ==
    /\ poolCache[p] # NoEntry
    /\ nPushes' = nPushes + 1
    /\ IF data = BadBase64
       THEN UNCHANGED <<poolCache, cache>>
       ELSE LET u == UpdatePoolAccount(poolCache[p], kind, data, slot)
            IN /\ poolCache' = [poolCache EXCEPT ![p] = u.entry]
               /\ cache' = IF ~u.err /\ p \in handlers
                           THEN handlePoolUpdate(cache, poolToQuotes[p], p, u.entry.st)
                           ELSE cache
    /\ calls' = [c \in Calls |->
                    IF calls[c].pc = "idle" THEN calls[c]
                    ELSE [calls[c] EXCEPT !.dirty = TRUE]]
    /\ UNCHANGED <<poolToQuotes, routerPools, handlers, nCalls>>
    /\ UNCHANGED OthersOfCache

InitCache ==
    /\ cache = [k \in CacheKeys |-> NoQuote]
    /\ poolToQuotes = [p \in ChainPools |-> <<>>]
    /\ routerPools = <<>>
    /\ poolCache = [p \in ChainPools |-> NoEntry]
    /\ handlers = {}
    /\ calls = [c \in Calls |-> IdleCall]
    /\ nCalls = 0
    /\ nPushes = 0

\* the filter arguments requests carry
FilterArgs == {<<<<>>, <<>>>>, <<<<"whirlpool">>, <<>>>>, <<<<>>, <<"whirlpool">>>>}

\* the steps of the call c
CallStep(c, limit) ==
    \/ /\ nCalls < limit
       /\ \E k \in RequestKeys, f \in FilterArgs : GetOrCalculateQuote(c, k, f[1], f[2])
    \/ CheckHasPool(c)
    \/ /\ nCalls < limit
       /\ \E k \in RefreshKeys : UpdateQuote(c, k)
    \/ \E f \in BOOLEAN, oc \in [ChainPools -> DiscoveryStates] : QueryAllPools(c, f, oc)
    \/ \E o \in UNION {Orders(S) : S \in SUBSET ChainPools} : FanOut(c, o)
    \/ Store(c)
    \/ Finish(c)
    \/ Cancel(c)

\* a push notification arrives
Push(limit) ==
    /\ nPushes < limit
    /\ \E p \in ChainPools, kind \in {"pool", "vault"},
          data \in ValidData \cup {ShortData, BadBase64}, slot \in 0..MaxSlot :
             handleAccountUpdate(p, kind, data, slot)

\* concurrent calls
NextCache == \E c \in Calls : CallStep(c, MaxCalls)

\* one caller, one call after the other
NextSeq == CallStep("c1", MaxSeqCalls)

\* one caller, with push notifications
NextPush == CallStep("c1", MaxPushCalls) \/ Push(MaxPushes)

\* a push notification with well-formed account data at the newest slot
PushValid(limit) ==
    /\ nPushes < limit
    /\ \E p \in ChainPools, kind \in {"pool", "vault"}, data \in ValidData :
          handleAccountUpdate(p, kind, data, MaxSlot)

\* one caller, with well-formed push notifications
NextIndex == CallStep("c1", MaxIdxCalls) \/ PushValid(MaxIdxPushes)

\* a push notification for a pool account whose data fails to decode: not
\* base64, or too short for the account layout
PushFailing(limit) ==
    /\ nPushes < limit
    /\ \E p \in ChainPools, data \in {ShortData, BadBase64}, slot \in 0..MaxSlot :
          handleAccountUpdate(p, "pool", data, slot)

\* one caller, with push notifications that fail to decode
NextDecodeFail == CallStep("c1", MaxPushCalls) \/ PushFailing(MaxPushes)

\* one caller making a longer series of calls, with well-formed push
\* notifications
NextShared == CallStep("c1", MaxSeqCalls) \/ PushValid(MaxIdxPushes)

----------------------------------------------------------------------------
(* cmd/quote-service/main.go: the -slippage flag and the /quote handler    *)

\* values of the -slippage flag (the flag is not validated)
ServiceSlippages == {slippageBps, 10000, 10001}

\* the slippageBps query parameter: absent, in range, out of range, not a
\* number
SlippageParams == {"", "0", "100", "10000", "10001", "abc"}

\* strconv.Atoi on the texts above
Atoi(s) ==
    CASE s = "0"     -> [err |-> FALSE, val |-> 0]
      [] s = "100"   -> [err |-> FALSE, val |-> 100]
      [] s = "10000" -> [err |-> FALSE, val |-> 10000]
      [] s = "10001" -> [err |-> FALSE, val |-> 10001]
      [] OTHER       -> [err |-> TRUE, val |-> 0]

\* the triples of the requests: well-formed, malformed, one with the amount
\* parameter missing
HttpKeys == RequestKeys \cup MalformedKeys \cup {<<"SOL", "USDC", "">>}

\* what the cache, the reverse index, the router and the subscriptions hold
CacheState ==
    [cache |-> cache, poolToQuotes |-> poolToQuotes, routerPools |-> routerPools,
     poolCache |-> poolCache, handlers |-> handlers]

NoResp == [status |-> 0, quote |-> NoQuote]

\* A request: its parameters, the handler's position, the quote it holds and
\* the response; for the claims, the state the request found (before), the
\* number of push notifications then (pushNo) and the result of its
\* GetOrCalculateQuote call if it made one (called, callRes).
IdleReq ==
    [pc |-> "idle", key |-> <<"", "", "">>, dexes |-> <<>>, excludeDexes |-> <<>>,
     slip |-> "", quote |-> NoQuote, resp |-> NoResp,
     before |-> [cache |-> <<>>, poolToQuotes |-> <<>>, routerPools |-> <<>>,
                 poolCache |-> <<>>, handlers |-> {}],
     pushNo |-> 0, called |-> FALSE, callRes |-> NoRet]

\* handleQuote, lines 180-222: read the parameters, reject a request without
\* input, output or amount, and look the key up in the cache (GetQuote) when
\* the request has no filters
handleQuote(key, dexes, excludeDexes, slippageParam) ==
    /\ req.pc \in {"idle", "responded"}
    /\ calls["c1"].pc = "idle"
    /\ nReqs' = nReqs + 1
    /\ LET me == [IdleReq EXCEPT !.key = key, !.dexes = dexes,
                                 !.excludeDexes = excludeDexes, !.slip = slippageParam,
                                 !.before = CacheState, !.pushNo = nPushes]
           noFilters == Len(dexes) = 0 /\ Len(excludeDexes) = 0
       IN req' = IF key[1] = "" \/ key[2] = "" \/ key[3] = ""
                 THEN [me EXCEPT !.pc = "responded", !.resp.status = 400]
                 ELSE IF noFilters /\ cache[KeyOf(key)] # NoQuote
                 THEN [me EXCEPT !.pc = "slippage", !.quote = cache[KeyOf(key)]]
                 ELSE [me EXCEPT !.pc = "call"]
    /\ UNCHANGED <<qcSlippageBps, cacheVars>>
    /\ UNCHANGED OthersOfHTTP

\* handleQuote, lines 225-227: the call of GetOrCalculateQuote
handleQuoteCall ==
    /\ req.pc = "call"
    /\ calls["c1"].pc = "idle"
    /\ GetOrCalculateQuote("c1", req.key, req.dexes, req.excludeDexes)

\* handleQuote, lines 227-231: GetOrCalculateQuote has returned; an error is
\* answered with status 500.  The quote returned is the one the call built
\* and stored.
handleQuoteReturn ==
    /\ req.pc = "call"
    /\ calls["c1"].pc = "done"
    /\ LET res == calls["c1"].res
       IN req' = IF res.err # "nil"
                 THEN [req EXCEPT !.pc = "responded", !.resp.status = 500,
                                  !.called = TRUE, !.callRes = res]
                 ELSE [req EXCEPT !.pc = "slippage", !.called = TRUE, !.callRes = res,
                                  !.quote = CachedQuote(res.pool, res.out)]
    /\ calls' = [d \in Calls |->
                    IF d = "c1" THEN IdleCall ELSE [calls[d] EXCEPT !.with = @ \ {"c1"}]]
    /\ UNCHANGED <<qcSlippageBps, nReqs>>
    /\ UNCHANGED <<cache, poolToQuotes, routerPools, poolCache, handlers, nCalls, nPushes>>
    /\ UNCHANGED OthersOfHTTP

\* the response of a request with a valid slippageBps parameter: a copy of
\* the quote with the threshold recomputed
ModifiedQuote(quote, customSlippage) ==
    [quote EXCEPT !.bps = customSlippage,
                  !.thr = Quo(quote.out * (10000 - customSlippage), 10000)]

\* the response status and quote for the quote the handler holds
SlippageResponse(quote, slippageParam) ==
    IF slippageParam = "" THEN [status |-> 200, quote |-> quote]
    ELSE LET a == Atoi(slippageParam)
         IN IF a.err \/ a.val < 0 \/ a.val > 10000
            THEN [status |-> 400, quote |-> NoQuote]
            ELSE [status |-> 200, quote |-> ModifiedQuote(quote, a.val)]

\* an override written into the quote the handler holds, which is the cache
\* entry itself, instead of into a copy
handleQuoteSlippageInPlace ==
    /\ req.pc = "slippage"
    /\ LET resp == SlippageResponse(req.quote, req.slip)
       IN /\ req' = [req EXCEPT !.pc = "responded", !.resp = resp]
          /\ cache' = IF resp.status = 200
                      THEN [cache EXCEPT ![KeyOf(req.key)] = resp.quote]
                      ELSE cache
    /\ UNCHANGED <<qcSlippageBps, nReqs>>
    /\ UNCHANGED <<poolToQuotes, routerPools, poolCache, handlers, calls, nCalls, nPushes>>
    /\ UNCHANGED OthersOfHTTP

\* handleQuote, lines 235-259: apply the slippageBps parameter and answer
handleQuoteSlippage ==
    /\ req.pc = "slippage"
    /\ req' = [req EXCEPT !.pc = "responded",
                          !.resp = SlippageResponse(req.quote, req.slip)]
    /\ UNCHANGED <<qcSlippageBps, nReqs>>
    /\ UNCHANGED cacheVars
    /\ UNCHANGED OthersOfHTTP

\* NewQuoteCache with the default flag; no request yet
InitHTTP ==
    /\ qcSlippageBps = slippageBps
    /\ req = IdleReq
    /\ nReqs = 0

\* one /quote request after the other
NextHTTP ==
    \/ /\ nReqs < MaxRequests
       /\ \E k \in HttpKeys, f \in FilterArgs, sp \in SlippageParams :
             handleQuote(k, f[1], f[2], sp)
    \/ handleQuoteCall
    \/ CheckHasPool("c1")
    \/ \E f \in BOOLEAN, oc \in [ChainPools -> DiscoveryStates] : QueryAllPools("c1", f, oc)
    \/ \E o \in UNION {Orders(S) : S \in SUBSET ChainPools} : FanOut("c1", o)
    \/ Store("c1")
    \/ handleQuoteReturn
    \/ handleQuoteSlippage

----------------------------------------------------------------------------
(* One WhirlpoolPool object: PoolCache.UpdatePoolAccount decodes into it   *)
(* under PoolCache.mu while a router goroutine runs Quote on it without    *)
(* any lock.  Both touch the fields one statement at a time.               *)

\* the account contents the pool is created with and updated to: the three
\* fields differ between any two of them
TornVersions ==
    <<[FeeRate |-> 0, Liquidity |-> 5, SqrtPrice |-> Q64],
      [FeeRate |-> 10000, Liquidity |-> 6, SqrtPrice |-> 2 * Q64],
      [FeeRate |-> 30000, Liquidity |-> 7, SqrtPrice |-> 3 * Q64]>>

NoRead == [FeeRate |-> -1, Liquidity |-> -1, SqrtPrice |-> -1]
IdleUpdate == [pc |-> "idle", data |-> NoSt, old |-> NoSt]
IdleQuote == [pc |-> "idle", inputMint |-> "", amount |-> 0, read |-> NoRead,
              ret |-> [err |-> FALSE, out |-> 0]]

\* the order in which Decode assigns the fields, and the one in which Quote
\* reads them
DecodeOrder == <<"FeeRate", "Liquidity", "SqrtPrice">>
QuoteOrder == <<"SqrtPrice", "Liquidity", "FeeRate">>

NextField(order, f) ==
    LET i == CHOOSE j \in DOMAIN order : order[j] = f
    IN IF i = Len(order) THEN "done" ELSE order[i + 1]

\* UpdatePoolAccount takes PoolCache.mu and Decode passes its length check
UpdateBegin(v) ==
    /\ tUpdate.pc = "idle"
    /\ nUpdates < MaxUpdates
    /\ nUpdates' = nUpdates + 1
    /\ tUpdate' = [pc |-> DecodeOrder[1],
                   data |-> AccountBytes(WhirlpoolDataSize, TornVersions[v]),
                   old |-> tPool]
    /\ tSeen' = IF tQuote.pc = "idle" THEN tSeen ELSE tSeen \cup {TornVersions[v]}
    /\ UNCHANGED <<tPool, tQuote>>
    /\ UNCHANGED OthersOfTorn

\* Decode assigns the next field; after the last UpdatePoolAccount returns
\* and releases the lock
DecodeWrite ==
    /\ tUpdate.pc \in Range(DecodeOrder)
    /\ tPool' = [tPool EXCEPT ![tUpdate.pc] = tUpdate.data[tUpdate.pc]]
    /\ tUpdate' = LET n == NextField(DecodeOrder, tUpdate.pc)
                  IN IF n = "done" THEN IdleUpdate ELSE [tUpdate EXCEPT !.pc = n]
    /\ UNCHANGED <<tQuote, tSeen, nUpdates>>
    /\ UNCHANGED OthersOfTorn

\* Quote is called with a non-zero amount
QuoteBegin(inputMint, amount) ==
    /\ tQuote.pc = "idle"
    /\ tQuote' = [IdleQuote EXCEPT !.pc = QuoteOrder[1], !.inputMint = inputMint,
                                   !.amount = amount]
    /\ tSeen' = IF tUpdate.pc = "idle" THEN {tPool}
                ELSE {tUpdate.old, [FeeRate |-> tUpdate.data.FeeRate,
                                    Liquidity |-> tUpdate.data.Liquidity,
                                    SqrtPrice |-> tUpdate.data.SqrtPrice]}
    /\ UNCHANGED <<tPool, tUpdate, nUpdates>>
    /\ UNCHANGED OthersOfTorn

\* Quote reads the next field
QuoteRead ==
    /\ tQuote.pc \in Range(QuoteOrder)
    /\ tQuote' = [tQuote EXCEPT !.read[tQuote.pc] = tPool[tQuote.pc],
                                !.pc = NextField(QuoteOrder, tQuote.pc)]
    /\ UNCHANGED <<tPool, tUpdate, tSeen, nUpdates>>
    /\ UNCHANGED OthersOfTorn

\* Quote computes its result from what it read and returns
QuoteReturn ==
    /\ tQuote.pc = "done"
    /\ tQuote' = [tQuote EXCEPT !.pc = "returned",
                                !.ret = Quote(tQuote.read, "SOL", tQuote.inputMint,
                                              tQuote.amount)]
    /\ UNCHANGED <<tPool, tUpdate, tSeen, nUpdates>>
    /\ UNCHANGED OthersOfTorn

\* the caller takes the result
QuoteTaken ==
    /\ tQuote.pc = "returned"
    /\ tQuote' = IdleQuote
    /\ tSeen' = {}
    /\ UNCHANGED <<tPool, tUpdate, nUpdates>>
    /\ UNCHANGED OthersOfTorn

InitTorn ==
    /\ tPool = TornVersions[1]
    /\ tUpdate = IdleUpdate
    /\ tQuote = IdleQuote
    /\ tSeen = {}
    /\ nUpdates = 0

NextTorn ==
    \/ \E v \in DOMAIN TornVersions : UpdateBegin(v)
    \/ DecodeWrite
    \/ \E m \in {"SOL", "USDC"}, a \in {100, 200} : QuoteBegin(m, a)
    \/ QuoteRead
    \/ QuoteReturn
    \/ QuoteTaken

----------------------------------------------------------------------------
(* pkg/subscription/websocket.go: the client, its table and reconnect      *)

Accounts == {"A1", "A2"}

\* the subscription id the server answers with: a new one for every request
\* id on every connection
ServerSubID(c, id) == 10 * (c + 1) + id

RequestIDs == 1..MaxSubs

NoSub == [ID |-> 0, AccountID |-> "", SubID |-> 0]
IdleApp == [pc |-> "idle", id |-> 0, accountID |-> ""]
IdleRc == [pc |-> "idle", subs |-> <<>>, live |-> [id \in RequestIDs |-> NoSub], i |-> 0]

\* the ids of the subscriptions in a table
LiveIDs(table) == {id \in DOMAIN table : table[id] # NoSub}

\* a JSON-RPC request as conn.WriteMessage is called with it; ok tells whether
\* the write succeeded, by which routine of the client issued it
RPCRequest(id, method, params, ok, by) ==
    [conn |-> conn, ID |-> id, Method |-> method, Params |-> params, ok |-> ok, by |-> by]

\* whether a write on the current connection can succeed / fail: a write
\* fails only on a connection that has broken
WriteResults == IF connected THEN {TRUE} ELSE {TRUE, FALSE}

\* a snapshot that leaves out the subscriptions the server has not confirmed
SnapshotConfirmedOnly(table, order) ==
    SelectSeq([i \in DOMAIN order |-> table[order[i]]], LAMBDA sub : sub.SubID # 0)

\* reconnect, lines 373-381: the subscriptions of the table, in the order the
\* map iteration yields them
Snapshot(table, order) == [i \in DOMAIN order |-> table[order[i]]]

\* SubscribeAccount, first critical section: take the next request id
SubscribeAccount(accountID) ==
    /\ app.pc = "idle"
    /\ nextID <= MaxSubs
    /\ app' = [pc |-> "send", id |-> nextID, accountID |-> accountID]
    /\ nextID' = nextID + 1
    /\ UNCHANGED <<conn, connected, subscriptions, sent, rc>>
    /\ UNCHANGED OthersOfWS

\* SubscribeAccount: sendRequest; a failed write returns the error
SubscribeSend ==
    /\ app.pc = "send"
    /\ \E ok \in WriteResults :
          IF ok
          THEN /\ sent' = Append(sent, RPCRequest(app.id, "accountSubscribe",
                                                   app.accountID, ok, "SubscribeAccount"))
               /\ app' = [app EXCEPT !.pc = "store"]
          ELSE /\ sent' = sent
               /\ app' = IdleApp
    /\ UNCHANGED <<conn, connected, subscriptions, nextID, rc>>
    /\ UNCHANGED OthersOfWS

\* SubscribeAccount, second critical section: record the subscription
SubscribeStore ==
    /\ app.pc = "store"
    /\ subscriptions' = [subscriptions EXCEPT ![app.id] =
                             [ID |-> app.id, AccountID |-> app.accountID, SubID |-> 0]]
    /\ app' = IdleApp
    /\ UNCHANGED <<conn, connected, nextID, sent, rc>>
    /\ UNCHANGED OthersOfWS

\* handleResponse: the server's answer to a delivered accountSubscribe
\* request sets the SubID of the subscription if it is in the table
handleResponse(id) ==
    /\ connected
    /\ \E i \in DOMAIN sent :
          sent[i].ID = id /\ sent[i].Method = "accountSubscribe" /\ sent[i].ok
    /\ subscriptions[id] # NoSub
    /\ subscriptions[id].SubID # ServerSubID(conn, id)
    /\ subscriptions' = [subscriptions EXCEPT ![id].SubID = ServerSubID(conn, id)]
    /\ UNCHANGED <<conn, connected, nextID, sent, app, rc>>
    /\ UNCHANGED OthersOfWS

\* Unsubscribe of a subscription of the table: an unconfirmed one is only
\* deleted, a confirmed one is deleted after its accountUnsubscribe request
\* was written (a failed write returns the error and changes nothing; the
\* model keeps no record of accountUnsubscribe requests)
Unsubscribe(id) ==
    /\ subscriptions[id] # NoSub
    /\ subscriptions' = [subscriptions EXCEPT ![id] = NoSub]
    /\ UNCHANGED <<conn, connected, nextID, sent, app, rc>>
    /\ UNCHANGED OthersOfWS

\* readMessages: a read error marks the client disconnected
readMessages ==
    /\ connected
    /\ connected' = FALSE
    /\ UNCHANGED <<conn, subscriptions, nextID, sent, app, rc>>
    /\ UNCHANGED OthersOfWS

\* a connect that installs the new connection and leaves the flag
connectKeepsFlag ==
    /\ rc.pc = "idle"
    /\ ~connected
    /\ conn < MaxReconnects
    /\ conn' = conn + 1
    /\ sent' = <<>>
    /\ rc' = [IdleRc EXCEPT !.pc = "snapshot"]
    /\ UNCHANGED <<connected, subscriptions, nextID, app>>
    /\ UNCHANGED OthersOfWS

\* handleReconnection's tick finds the client disconnected; reconnect calls
\* connect, which installs a new connection.  A dial that fails returns the
\* error, which is logged: it changes nothing, and the next tick tries again.
connect ==
    /\ rc.pc = "idle"
    /\ ~connected
    /\ conn < MaxReconnects
    /\ conn' = conn + 1
    /\ connected' = TRUE
    /\ sent' = <<>>
    /\ rc' = [IdleRc EXCEPT !.pc = "snapshot"]
    /\ UNCHANGED <<subscriptions, nextID, app>>
    /\ UNCHANGED OthersOfWS

\* reconnect: copy the table under the lock
reconnectSnapshot(order) ==
    /\ rc.pc = "snapshot"
    /\ LET subs == Snapshot(subscriptions, order)
       IN rc' = [pc |-> IF Len(subs) = 0 THEN "done" ELSE "send",
                 subs |-> subs, live |-> subscriptions, i |-> 1]
    /\ UNCHANGED <<conn, connected, subscriptions, nextID, sent, app>>
    /\ UNCHANGED OthersOfWS

\* reconnect: one iteration of the resubscribe loop; a failed write is logged
reconnectSend ==
    /\ rc.pc = "send"
    /\ \E ok \in WriteResults :
          sent' = Append(sent, RPCRequest(rc.subs[rc.i].ID, "accountSubscribe",
                                          rc.subs[rc.i].AccountID, ok, "reconnect"))
    /\ rc' = [rc EXCEPT !.i = @ + 1,
                        !.pc = IF rc.i = Len(rc.subs) THEN "done" ELSE "send"]
    /\ UNCHANGED <<conn, connected, subscriptions, nextID, app>>
    /\ UNCHANGED OthersOfWS

\* reconnect returns nil
reconnectReturn ==
    /\ rc.pc = "done"
    /\ rc' = IdleRc
    /\ UNCHANGED <<conn, connected, subscriptions, nextID, sent, app>>
    /\ UNCHANGED OthersOfWS

\* NewWebSocketClient: connected, empty table, nextID 1
InitWS ==
    /\ conn = 0
    /\ connected = TRUE
    /\ subscriptions = [id \in RequestIDs |-> NoSub]
    /\ nextID = 1
    /\ sent = <<>>
    /\ app = IdleApp
    /\ rc = IdleRc

NextWS ==
    \/ \E a \in Accounts : SubscribeAccount(a)
    \/ SubscribeSend
    \/ SubscribeStore
    \/ \E id \in RequestIDs : handleResponse(id)
    \/ \E id \in RequestIDs : Unsubscribe(id)
    \/ readMessages
    \/ connect
    \/ \E order \in Orders(LiveIDs(subscriptions)) : reconnectSnapshot(order)
    \/ reconnectSend
    \/ reconnectReturn

----------------------------------------------------------------------------
(* pkg/sol/rpc_pool.go: round-robin over the clients                       *)

\* the goroutines calling GetClient
Getters == {"g1", "g2"}

IdleGetter == [pc |-> "idle", ticket |-> 0, client |-> 0]

\* atomic.AddUint64(&p.index, 1): the new value, wrapping at the width of
\* the counter
AddUint64(index) == (index + 1) % (2 ^ IdxBits)

\* GetClient up to the selection of the client: a pool of one client returns
\* it without touching the counter, otherwise the counter is incremented
\* atomically and the new value modulo len(p.clients) selects the client
GetClient(g) ==
    /\ rpCallers[g].pc = "idle"
    /\ rpTickets < MaxGetCalls
    /\ rpTickets' = rpTickets + 1
    /\ IF rpN = 1
       THEN /\ rpIndex' = rpIndex
            /\ rpCallers' = [rpCallers EXCEPT ![g] =
                                [pc |-> "return", ticket |-> rpTickets + 1, client |-> 0]]
       ELSE /\ rpIndex' = AddUint64(rpIndex)
            /\ rpCallers' = [rpCallers EXCEPT ![g] =
                                [pc |-> "return", ticket |-> rpTickets + 1,
                                 client |-> rpIndex' % rpN]]
    /\ UNCHANGED <<rpN, rpDone>>
    /\ UNCHANGED OthersOfRPC

\* return p.clients[idx]
GetClientReturn(g) ==
    /\ rpCallers[g].pc = "return"
    /\ rpDone' = rpDone \cup {[ticket |-> rpCallers[g].ticket,
                              client |-> rpCallers[g].client]}
    /\ rpCallers' = [rpCallers EXCEPT ![g] = IdleGetter]
    /\ UNCHANGED <<rpN, rpIndex, rpTickets>>
    /\ UNCHANGED OthersOfRPC

\* NewRPCPool with one endpoint; index 0
InitRPC ==
    /\ rpN = 1
    /\ rpIndex = 0
    /\ rpTickets = 0
    /\ rpCallers = [g \in Getters |-> IdleGetter]
    /\ rpDone = {}

NextRPC ==
    \/ \E g \in Getters : GetClient(g)
    \/ \E g \in Getters : GetClientReturn(g)

----------------------------------------------------------------------------
(* cmd/quote-service/cache.go: StartPeriodicRefresh                        *)

\* the -refresh flag, in ticks of the model's clock
refreshInterval == 1

\* fallbackInterval = qc.refreshInterval * 10
FallbackFactor == 10

\* the longest outage the model measures
MaxDown == refreshInterval + 1

IdleRefresh == [pc |-> "start", elapsed |-> 0, downFor |-> 0, runs |-> 0]

\* lines 587-597: the period chosen once from qc.useWebSocket
FallbackInterval ==
    IF useWebSocket THEN refreshInterval * FallbackFactor ELSE refreshInterval

\* RefreshAll: UpdateQuote of the pair (the initial refresh and every
\* refresh the ticker starts)
RefreshAllCall ==
    /\ rf.pc \in {"start", "refresh"}
    /\ \E k \in RefreshKeys : UpdateQuote("c1", k)

\* UpdateQuote returned (its error is logged only): the initial refresh is
\* followed by the choice of the period and time.NewTicker, a later one by
\* the next wait on the ticker
RefreshAllReturn ==
    /\ rf.pc \in {"start", "refresh"}
    /\ calls["c1"].pc = "done"
    /\ calls' = [calls EXCEPT !["c1"] = IdleCall]
    /\ fallbackInterval' = IF rf.pc = "start" THEN FallbackInterval ELSE fallbackInterval
    /\ rf' = [rf EXCEPT !.pc = "wait", !.elapsed = IF rf.pc = "start" THEN 0 ELSE @]
    /\ UNCHANGED useWebSocket
    /\ UNCHANGED <<cache, poolToQuotes, routerPools, poolCache, handlers, nCalls, nPushes>>
    /\ UNCHANGED wsVars
    /\ UNCHANGED OthersOfRefresh

\* one tick of the clock passes while the goroutine waits on the ticker
Tick ==
    /\ rf.pc = "wait"
    /\ rf.elapsed < fallbackInterval
    /\ rf' = [rf EXCEPT !.elapsed = @ + 1,
                        !.downFor = IF connected THEN 0
                                    ELSE IF @ < MaxDown THEN @ + 1 ELSE @]
    /\ UNCHANGED <<useWebSocket, fallbackInterval>>
    /\ UNCHANGED <<cacheVars, wsVars>>
    /\ UNCHANGED OthersOfRefresh

\* case <-ticker.C: the period has passed
TickerFires ==
    /\ rf.pc = "wait"
    /\ rf.elapsed = fallbackInterval
    /\ rf.runs < MaxRefreshes
    /\ rf' = [rf EXCEPT !.pc = "refresh", !.elapsed = 0, !.runs = @ + 1]
    /\ UNCHANGED <<useWebSocket, fallbackInterval>>
    /\ UNCHANGED <<cacheVars, wsVars>>
    /\ UNCHANGED OthersOfRefresh

\* case <-ctx.Done()
StopRefresh ==
    /\ rf.pc = "wait"
    /\ rf' = [rf EXCEPT !.pc = "stopped"]
    /\ UNCHANGED <<useWebSocket, fallbackInterval>>
    /\ UNCHANGED <<cacheVars, wsVars>>
    /\ UNCHANGED OthersOfRefresh

\* NewQuoteCache with a subscription manager; the goroutine not yet started
InitRefresh ==
    /\ useWebSocket = TRUE
    /\ fallbackInterval = 0
    /\ rf = IdleRefresh

NextRefresh ==
    \/ RefreshAllCall
    \/ \E f \in BOOLEAN, oc \in [ChainPools -> DiscoveryStates] : QueryAllPools("c1", f, oc)
    \/ \E o \in UNION {Orders(S) : S \in SUBSET ChainPools} : FanOut("c1", o)
    \/ Store("c1")
    \/ RefreshAllReturn
    \/ Tick
    \/ TickerFires
    \/ StopRefresh
    \/ readMessages
    \/ connect
    \/ \E order \in Orders(LiveIDs(subscriptions)) : reconnectSnapshot(order)
    \/ reconnectReturn

----------------------------------------------------------------------------
(* pkg/protocol: FetchPoolsByPair of Orca, Aldrin and GooseFX              *)

\* the program's pool accounts on chain, in the order the gateway lists them
AmmAccountIds == <<"O1", "O2", "O3">>
AmmAccounts == Range(AmmAccountIds)

AmmMintA(a) == IF a = "O2" THEN "USDC" ELSE "SOL"
AmmMintB(a) == IF a = "O2" THEN "SOL" ELSE "USDC"

\* the mint arguments of a call
FetchMints == {"SOL", "USDC", "bad"}

\* GetProgramAccountsWithOpts with the two memcmp filters
GetProgramAccountsWithOpts(mintA, mintB) ==
    SelectIn(AmmAccountIds, {a \in AmmAccounts : AmmMintA(a) = mintA /\ AmmMintB(a) = mintB})

IdleFetch ==
    [pc |-> "idle", baseMint |-> "", quoteMint |-> "", decodable |-> {},
     programAccounts |-> <<>>, fwdFailed |-> FALSE, revFailed |-> FALSE,
     res |-> <<>>, err |-> "pending"]

\* FetchPoolsByPair up to and including the query for (base, quote); ok tells
\* whether the gateway answered it
FetchForward(ok) ==
    /\ fetch.pc = "call"
    /\ fetch' =
          IF PublicKeyFromBase58(fetch.baseMint).err
          THEN [fetch EXCEPT !.pc = "done", !.err = "invalid base mint address"]
          ELSE IF PublicKeyFromBase58(fetch.quoteMint).err
          THEN [fetch EXCEPT !.pc = "done", !.err = "invalid quote mint address"]
          ELSE IF ~ok
          THEN [fetch EXCEPT !.pc = "done", !.fwdFailed = TRUE,
                             !.err = "failed to fetch pools"]
          ELSE [fetch EXCEPT !.pc = "reverse",
                             !.programAccounts =
                                 GetProgramAccountsWithOpts(fetch.baseMint, fetch.quoteMint)]
    /\ UNCHANGED <<cpq, wq>>
    /\ UNCHANGED OthersOfUnit

\* the query for the swapped ordering: its accounts are appended if err == nil
FetchReverse(ok) ==
    /\ fetch.pc = "reverse"
    /\ fetch' =
          IF ok
          THEN [fetch EXCEPT !.pc = "decode",
                             !.programAccounts =
                                 @ \o GetProgramAccountsWithOpts(fetch.quoteMint,
                                                                 fetch.baseMint)]
          ELSE [fetch EXCEPT !.pc = "decode", !.revFailed = TRUE]
    /\ UNCHANGED <<cpq, wq>>
    /\ UNCHANGED OthersOfUnit

\* the decode loop: an account that does not decode is skipped
FetchDecode ==
    /\ fetch.pc = "decode"
    /\ fetch' = [fetch EXCEPT !.pc = "done", !.err = "nil",
                              !.res = SelectSeq(fetch.programAccounts,
                                                LAMBDA a : a \in fetch.decodable)]
    /\ UNCHANGED <<cpq, wq>>
    /\ UNCHANGED OthersOfUnit

NextFetch ==
    \/ \E ok \in BOOLEAN : FetchForward(ok)
    \/ \E ok \in BOOLEAN : FetchReverse(ok)
    \/ FetchDecode

----------------------------------------------------------------------------
(* pkg/pool: Quote of the constant-product pools                           *)

Abs(x) == IF x < 0 THEN -x ELSE x

\* <<quotient, remainder>> of r * b by c for 0 <= r < c, by doubling, so that
\* no intermediate value exceeds 2 * c
RECURSIVE MulMod(_, _, _)
MulMod(r, b, c) ==
    IF b = 0 THEN <<0, 0>>
    ELSE LET h == MulMod(r, b \div 2, c)
             d == 2 * h[2] + (IF b % 2 = 1 THEN r ELSE 0)
         IN <<2 * h[1] + d \div c, d % c>>

\* a.Mul(b).Quo(c) of math.Int for c # 0: the exact product, divided with
\* truncation toward zero
MulQuo(a, b, c) ==
    LET q == (Abs(a) \div Abs(c)) * Abs(b) + MulMod(Abs(a) % Abs(c), Abs(b), Abs(c))[1]
    IN IF (a < 0) = ((b < 0) = (c < 0)) THEN -q ELSE q

\* int64(x) of an unsigned field
ToInt64(x) == IF x >= 2 ^ (FeeBits - 1) THEN x - 2 ^ FeeBits ELSE x

\* the pool kinds: Aldrin; Orca, GooseFX and Fluxbeam; SPL Token Swap
CPKinds == {"aldrin", "orca", "splswap"}

\* the values of a fee field in the account data of an SPL Token Swap pool
FeeFields == {0, 25, 26, 10000, 2 ^ (FeeBits - 1), 2 ^ FeeBits - 1}

\* Decode: the fee fields of the pool object (Aldrin 25/10000; Orca, GooseFX,
\* Fluxbeam 30/10000; SPL Token Swap as the account data have them)
DecodeFees(kind, dataNumerator, dataDenominator) ==
    CASE kind = "aldrin" -> [FeeNumerator |-> 25, FeeDenominator |-> 10000]
      [] kind = "orca"   -> [FeeNumerator |-> 30, FeeDenominator |-> 10000]
      [] OTHER           -> [FeeNumerator |-> dataNumerator,
                             FeeDenominator |-> dataDenominator]

\* the balances of the two vaults and the input amounts
VaultBalances == {0, 1, 1000, 1000000, 2000000}
QuoteAmounts == {0, 1, 3, 400, 10000}

\* a quote that adds the fee to the input instead of deducting it
ConstantProductFeeAdded(reserveA, reserveB, fees, inputIsA, amount) ==
    LET reserveIn == IF inputIsA THEN reserveA ELSE reserveB
        reserveOut == IF inputIsA THEN reserveB ELSE reserveA
        feeNumerator == ToInt64(fees.FeeNumerator)
        feeDenominator == ToInt64(fees.FeeDenominator)
    IN IF amount = 0 THEN [err |-> "nil", out |-> 0]
       ELSE IF feeDenominator = 0 THEN [err |-> "panic", out |-> 0]
       ELSE LET fee == MulQuo(amount, feeNumerator, feeDenominator)
                amountInWithFee == amount + fee
                denominator == reserveIn + amountInWithFee
            IN IF denominator = 0 THEN [err |-> "panic", out |-> 0]
               ELSE [err |-> "nil",
                     out |-> MulQuo(reserveOut, amountInWithFee, denominator)]

\* Quote after the vault balances are read: direction, fee, constant product;
\* a division by zero panics
ConstantProduct(reserveA, reserveB, fees, inputIsA, amount) ==
    LET reserveIn == IF inputIsA THEN reserveA ELSE reserveB
        reserveOut == IF inputIsA THEN reserveB ELSE reserveA
        feeNumerator == ToInt64(fees.FeeNumerator)
        feeDenominator == ToInt64(fees.FeeDenominator)
    IN IF amount = 0 THEN [err |-> "nil", out |-> 0]
       ELSE IF feeDenominator = 0 THEN [err |-> "panic", out |-> 0]
       ELSE LET fee == MulQuo(amount, feeNumerator, feeDenominator)
                amountInWithFee == amount - fee
                denominator == reserveIn + amountInWithFee
            IN IF denominator = 0 THEN [err |-> "panic", out |-> 0]
               ELSE [err |-> "nil",
                     out |-> MulQuo(reserveOut, amountInWithFee, denominator)]

IdleCPQuote ==
    [pc |-> "idle", kind |-> "", fees |-> [FeeNumerator |-> 0, FeeDenominator |-> 0],
     vaultA |-> 0, vaultB |-> 0, inputIsA |-> TRUE, amount |-> 0,
     reads |-> 0, err |-> "pending", out |-> 0]

\* Quote, the gateway read of the two vault accounts: a failed read or a
\* missing account returns the error
QuoteVaults(ok) ==
    /\ cpq.pc = "call"
    /\ cpq' = IF ok THEN [cpq EXCEPT !.pc = "compute", !.reads = @ + 1]
              ELSE [cpq EXCEPT !.pc = "done", !.reads = @ + 1,
                               !.err = "failed to fetch vault balances"]
    /\ UNCHANGED <<fetch, wq>>
    /\ UNCHANGED OthersOfUnit

\* Quote, from the direction to the return
QuoteCompute ==
    /\ cpq.pc = "compute"
    /\ LET r == ConstantProduct(cpq.vaultA, cpq.vaultB, cpq.fees, cpq.inputIsA,
                                cpq.amount)
       IN cpq' = [cpq EXCEPT !.pc = "done", !.err = r.err, !.out = r.out]
    /\ UNCHANGED <<fetch, wq>>
    /\ UNCHANGED OthersOfUnit

NextCPQuote ==
    \/ \E ok \in BOOLEAN : QuoteVaults(ok)
    \/ QuoteCompute

----------------------------------------------------------------------------
(* pkg/pool/whirlpool: single calls of Quote                               *)

\* the values of the fields Quote reads: FeeRate is a uint16 in hundredths
\* of a basis point
WhirlpoolFeeRates == {0, 200, 30000, 65535}
WhirlpoolLiquidities == {0, 5}
WhirlpoolSqrtPrices == {0, 1, 3, Q64, Q64 + 1, 2 * Q64}

\* the mints of the pool and a mint that is neither
WhirlpoolInputMints == {"SOL", "USDC", "BONK"}

IdleWQuote ==
    [pc |-> "idle", st |-> NoSt, inputMint |-> "", amount |-> 0,
     err |-> FALSE, out |-> 0]

\* Quote of the pool W1 (TokenMintA SOL, TokenMintB USDC)
WhirlpoolQuote ==
    /\ wq.pc = "call"
    /\ LET r == Quote(wq.st, TokenMintA("W1"), wq.inputMint, wq.amount)
       IN wq' = [wq EXCEPT !.pc = "done", !.err = r.err, !.out = r.out]
    /\ UNCHANGED <<fetch, cpq>>
    /\ UNCHANGED OthersOfUnit

NextWQuote == WhirlpoolQuote

\* no single call under way
InitUnit ==
    /\ fetch = IdleFetch
    /\ cpq = IdleCPQuote
    /\ wq = IdleWQuote

----------------------------------------------------------------------------
(* pkg/pool/pump: a subscribed PumpAMMPool and the quote cache             *)

\* feeMultiplier / BaseDecimal = 1 - DefaultFeeRate, DefaultFeeRate = 0.0025
PumpFeeMultiplier == 9975
PumpBaseDecimal == 10000

\* the token balances of the two vaults, on chain and in notifications
PumpBalances == {1000, 2000}

\* the accounts SubscribePool subscribes for the pool (getPoolAccounts)
PumpAccounts == {"pool", "baseVault", "quoteVault"}

\* the amount of the cached pair, the base mint being the input
PumpAmountIn == 100

\* PumpAMMPool.Quote on the cached amounts, input the base mint
PumpQuoteOut(baseAmount, quoteAmount, inputAmount) ==
    LET k == baseAmount * quoteAmount
        newBase == baseAmount + Quo(inputAmount * PumpFeeMultiplier, PumpBaseDecimal)
    IN quoteAmount - Quo(k, newBase)

\* PumpAMMPool.Quote, lines 404-435: the vault balances are read from the
\* gateway unless they were marked fresh less than 5 seconds ago
QuoteReadsGateway(pool) == ~pool.cacheDataFresh \/ pool.cacheTooOld

\* the pool after the gateway read of Quote
AfterGatewayRead(pool, base, quote) ==
    [pool EXCEPT !.BaseAmount = base, !.QuoteAmount = quote,
                 !.cacheDataFresh = TRUE, !.cacheTooOld = FALSE]

\* PumpAMMPool.UpdateFromAccountData: a vault notification sets the amount
\* and marks the cache fresh; a pool account notification is decoded and
\* leaves the amounts and the freshness fields as they are
PumpUpdateFromAccountData(pool, account, amount) ==
    CASE account = "baseVault" ->
            [pool EXCEPT !.BaseAmount = amount, !.cacheDataFresh = TRUE,
                         !.cacheTooOld = FALSE]
      [] account = "quoteVault" ->
            [pool EXCEPT !.QuoteAmount = amount, !.cacheDataFresh = TRUE,
                         !.cacheTooOld = FALSE]
      [] OTHER -> [pool EXCEPT !.LpSupply = amount]

\* the decoded pool before its first quote
NewPump ==
    [BaseAmount |-> 0, QuoteAmount |-> 0, LpSupply |-> 0,
     cacheDataFresh |-> FALSE, cacheTooOld |-> TRUE]

NoPumpCache ==
    [subscribed |-> FALSE, out |-> -1, indexed |-> FALSE,
     recalcReads |-> 0, pushes |-> 0]

\* GetOrCalculateQuote for the pool's pair on a cache miss: discovery,
\* SubscribePool and RegisterHandler, the router's Quote of the discovered
\* object (with its gateway read, which can fail), the store and the reverse
\* index.  The first discovery's object becomes the pool cache's object; a
\* later discovery decodes a new object that only the router holds.
PumpGetOrCalculateQuote(ok, base, quote) ==
    /\ pumpCache.out = -1
    /\ LET discovered == IF pumpCache.subscribed THEN NewPump ELSE pump
           reads == QuoteReadsGateway(discovered)
           quoted == IF reads /\ ok THEN AfterGatewayRead(discovered, base, quote)
                     ELSE discovered
       IN /\ pump' = IF pumpCache.subscribed THEN pump ELSE quoted
          /\ pumpCache' =
                IF reads /\ ~ok
                THEN [pumpCache EXCEPT !.subscribed = TRUE]
                ELSE [pumpCache EXCEPT
                         !.subscribed = TRUE, !.indexed = TRUE,
                         !.out = PumpQuoteOut(quoted.BaseAmount, quoted.QuoteAmount,
                                              PumpAmountIn)]
    /\ UNCHANGED OthersOfPump

\* five seconds pass since the balances were last marked fresh
PumpCacheAges ==
    /\ pump.cacheDataFresh
    /\ ~pump.cacheTooOld
    /\ pump' = [pump EXCEPT !.cacheTooOld = TRUE]
    /\ UNCHANGED pumpCache
    /\ UNCHANGED OthersOfPump

\* handleAccountUpdate for a notification on one of the pool's accounts:
\* UpdatePoolAccount, then the handler: handlePoolUpdate recalculates the
\* pair if it is indexed under the pool, by Quote on the pool cache's
\* object; a failed quote leaves the entry as it is
PumpHandleAccountUpdate(account, amount, ok, base, quote) ==
    /\ pumpCache.subscribed
    /\ pumpCache.pushes < MaxPumpPushes
    /\ LET updated == PumpUpdateFromAccountData(pump, account, amount)
           reads == pumpCache.indexed /\ QuoteReadsGateway(updated)
           quoted == IF reads /\ ok THEN AfterGatewayRead(updated, base, quote)
                     ELSE updated
       IN /\ pump' = quoted
          /\ pumpCache' = [pumpCache EXCEPT
                 !.pushes = @ + 1,
                 !.recalcReads = IF reads THEN @ + 1 ELSE @,
                 !.out = IF pumpCache.indexed /\ (~reads \/ ok)
                         THEN PumpQuoteOut(quoted.BaseAmount, quoted.QuoteAmount,
                                           PumpAmountIn)
                         ELSE @]
    /\ UNCHANGED OthersOfPump

InitPump ==
    /\ pump = NewPump
    /\ pumpCache = NoPumpCache

NextPump ==
    \/ \E ok \in BOOLEAN, b \in PumpBalances, q \in PumpBalances :
          PumpGetOrCalculateQuote(ok, b, q)
    \/ PumpCacheAges
    \/ \E a \in PumpAccounts, amount \in PumpBalances, ok \in BOOLEAN,
          b \in PumpBalances, q \in PumpBalances :
          PumpHandleAccountUpdate(a, amount, ok, b, q)

----------------------------------------------------------------------------
(* pkg/subscription: the push reader and the recalculation it triggers     *)

\* the notifications the server sends for the accounts of the pool
ReaderMessages == [account : PumpAccounts, amount : PumpBalances]

NoMessage == [account |-> "", amount |-> 0]
IdleReader == [pc |-> "read", msg |-> NoMessage, applied |-> 0]
IdleRecalc == [pc |-> "idle", out |-> -1]

\* the server sends an account notification on the connection
ServerNotifies(msg) ==
    /\ arrived < MaxReaderMsgs
    /\ arrived' = arrived + 1
    /\ socket' = Append(socket, msg)
    /\ UNCHANGED <<reader, recalc, rdPool, rdOut>>
    /\ UNCHANGED OthersOfReader

\* readMessages: conn.ReadMessage returns the next message; handleMessage
\* and handleAccountNotification find the handler of its subscription
ConnReadMessage ==
    /\ reader.pc = "read"
    /\ socket # <<>>
    /\ reader' = [reader EXCEPT !.pc = "update", !.msg = Head(socket)]
    /\ socket' = Tail(socket)
    /\ UNCHANGED <<arrived, recalc, rdPool, rdOut>>
    /\ UNCHANGED OthersOfReader

\* the handler, called by the reader: SubscriptionManager.handleAccountUpdate
\* applies the data to the pool (UpdatePoolAccount) and calls the registered
\* handlePoolUpdate, which calls recalculateQuote for the indexed pair.  The
\* calls are plain function calls: the reader is inside them until they
\* return.
ReaderHandleAccountUpdate ==
    /\ reader.pc = "update"
    /\ rdPool' = PumpUpdateFromAccountData(rdPool, reader.msg.account, reader.msg.amount)
    /\ reader' = [reader EXCEPT !.pc = "handler", !.applied = @ + 1]
    /\ recalc' = [IdleRecalc EXCEPT !.pc = "quote"]
    /\ UNCHANGED <<socket, arrived, rdOut>>
    /\ UNCHANGED OthersOfReader

\* recalculateQuote calls pool.Quote: it asks the gateway for the vault
\* balances unless they are marked fresh, then computes the quote
RecalcQuote ==
    /\ recalc.pc = "quote"
    /\ recalc' = IF QuoteReadsGateway(rdPool)
                 THEN [recalc EXCEPT !.pc = "gateway"]
                 ELSE [pc |-> "store",
                       out |-> PumpQuoteOut(rdPool.BaseAmount, rdPool.QuoteAmount,
                                            PumpAmountIn)]
    /\ UNCHANGED <<socket, arrived, reader, rdPool, rdOut>>
    /\ UNCHANGED OthersOfReader

\* the gateway answers the read of pool.Quote; on an error recalculateQuote
\* returns it, handlePoolUpdate logs it and the handler returns to the reader
RecalcGatewayReturns(ok, base, quote) ==
    /\ recalc.pc = "gateway"
    /\ IF ok
       THEN /\ rdPool' = AfterGatewayRead(rdPool, base, quote)
            /\ recalc' = [pc |-> "store",
                          out |-> PumpQuoteOut(base, quote, PumpAmountIn)]
            /\ reader' = reader
       ELSE /\ rdPool' = rdPool
            /\ recalc' = IdleRecalc
            /\ reader' = [reader EXCEPT !.pc = "read", !.msg = NoMessage]
    /\ UNCHANGED <<socket, arrived, rdOut>>
    /\ UNCHANGED OthersOfReader

\* recalculateQuote writes the entry and returns; the handler returns to
\* the reader's loop
RecalcStore ==
    /\ recalc.pc = "store"
    /\ rdOut' = recalc.out
    /\ recalc' = IdleRecalc
    /\ reader' = [reader EXCEPT !.pc = "read", !.msg = NoMessage]
    /\ UNCHANGED <<socket, arrived, rdPool>>
    /\ UNCHANGED OthersOfReader

\* five seconds pass since the balances were last marked fresh
ReaderCacheAges ==
    /\ rdPool.cacheDataFresh
    /\ ~rdPool.cacheTooOld
    /\ rdPool' = [rdPool EXCEPT !.cacheTooOld = TRUE]
    /\ UNCHANGED <<socket, arrived, reader, recalc, rdOut>>
    /\ UNCHANGED OthersOfReader

InitReader ==
    /\ socket = <<>>
    /\ arrived = 0
    /\ reader = IdleReader
    /\ recalc = IdleRecalc
    /\ rdPool = NewPump
    /\ rdOut = -1

NextReader ==
    \/ \E msg \in ReaderMessages : ServerNotifies(msg)
    \/ ConnReadMessage
    \/ ReaderHandleAccountUpdate
    \/ RecalcQuote
    \/ \E ok \in BOOLEAN, b \in PumpBalances, q \in PumpBalances :
          RecalcGatewayReturns(ok, b, q)
    \/ RecalcStore
    \/ ReaderCacheAges

----------------------------------------------------------------------------
(* cmd/quote-service/cache.go: the gateway client of the quote cache       *)

\* who calls the gateway: FetchPoolsByPair of a protocol, Quote of a pool
GatewayCallers == {"discovery", "quote"}

\* NewQuoteCache, lines 53-65 and 81-92: with more than one endpoint the
\* RPC pool is built and GetClient is called once; its client becomes
\* qc.solClient and the client of every protocol
NewQuoteCache ==
    /\ solClient = -1
    /\ IF rpN > 1
       THEN /\ rpIndex' = AddUint64(rpIndex)
            /\ solClient' = rpIndex' % rpN
       ELSE /\ rpIndex' = rpIndex
            /\ solClient' = 0
    /\ UNCHANGED <<rpN, rpTickets, rpCallers, rpDone, gwLog>>
    /\ UNCHANGED <<routerVars, cacheVars, tornVars, wsVars, httpVars, refreshVars,
                   unitVars, pumpVars, readerVars, confirmVars, notifyVars, loopVars, mgrVars>>

\* a gateway call of discovery (the protocol's client) or of a pool quote
\* (qc.solClient handed to the router): both use the client chosen by
\* NewQuoteCache
GatewayCall(by) ==
    /\ solClient # -1
    /\ Len(gwLog) < MaxGatewayCalls
    /\ gwLog' = Append(gwLog, [by |-> by, endpoint |-> solClient])
    /\ UNCHANGED solClient
    /\ UNCHANGED OthersOfGateway

InitGateway ==
    /\ solClient = -1
    /\ gwLog = <<>>

NextGateway ==
    \/ NewQuoteCache
    \/ \E by \in GatewayCallers : GatewayCall(by)

----------------------------------------------------------------------------
(* pkg/subscription/websocket.go: the one response to a request            *)

\* readMessages -> handleMessage -> handleResponse for the response the
\* server sends to the accountSubscribe request id, whenever the reader
\* gets to it after the request was written: the SubID is set if the
\* subscription is in the table, and the response is dropped if it is not
handleResponseOnce(id) ==
    /\ connected
    /\ \E i \in DOMAIN sent :
          sent[i].ID = id /\ sent[i].Method = "accountSubscribe" /\ sent[i].ok
    /\ <<conn, id>> \notin answered
    /\ answered' = answered \cup {<<conn, id>>}
    /\ subscriptions' =
          IF subscriptions[id] # NoSub
          THEN [subscriptions EXCEPT ![id].SubID = ServerSubID(conn, id)]
          ELSE subscriptions
    /\ UNCHANGED <<conn, connected, nextID, sent, app, rc>>
    /\ UNCHANGED <<routerVars, cacheVars, tornVars, httpVars, rpcVars, refreshVars,
                   unitVars, pumpVars, readerVars, gatewayVars, notifyVars, loopVars, mgrVars>>

InitConfirm == answered = {}

\* SubscribeAccount and Unsubscribe calls and the reader processing the
\* responses
NextConfirm ==
    \/ \E a \in Accounts : SubscribeAccount(a)
    \/ SubscribeSend
    \/ SubscribeStore
    \/ \E id \in RequestIDs : Unsubscribe(id)
    \/ \E id \in RequestIDs : handleResponseOnce(id)

----------------------------------------------------------------------------
(* pkg/subscription/websocket.go: account notifications                    *)

\* the subscription ids the server hands out: it numbers the subscriptions
\* of every connection from the same range
ServerIDs == {ServerSubID(0, id) : id \in RequestIDs}

NoDelivery == [s |-> 0, conn |-> 0, id |-> 0, accountID |-> ""]

\* the server registers the subscription of a request written on the
\* current connection and assigns it an id not in use on that connection;
\* its response carries the id
serverSubscribes(id, s) ==
    /\ connected
    /\ \E i \in DOMAIN sent :
          sent[i].ID = id /\ sent[i].Method = "accountSubscribe" /\ sent[i].ok
    /\ serverSubs[conn][id] = 0
    /\ \A other \in RequestIDs : serverSubs[conn][other] # s
    /\ serverSubs' = [serverSubs EXCEPT ![conn][id] = s]
    /\ UNCHANGED <<delivered, wsVars>>
    /\ UNCHANGED OthersOfWSNotify

\* handleResponse for the server's response to request id: the SubID of
\* the subscription becomes the id the server assigned
handleResponseOf(id) ==
    /\ connected
    /\ serverSubs[conn][id] # 0
    /\ subscriptions[id] # NoSub
    /\ subscriptions[id].SubID # serverSubs[conn][id]
    /\ subscriptions' = [subscriptions EXCEPT ![id].SubID = serverSubs[conn][id]]
    /\ UNCHANGED <<conn, connected, nextID, sent, app, rc, serverSubs, delivered>>
    /\ UNCHANGED OthersOfWSNotify

\* handleAccountNotification for a notification of the current connection
\* carrying the server id s: the loop over c.subscriptions stops at the
\* first subscription whose SubID is s (the map's order decides which one,
\* hence the choice of id) and its handler is called with its account id;
\* without a match the notification is dropped
handleAccountNotification(s, id) ==
    /\ connected
    /\ \E r \in RequestIDs : serverSubs[conn][r] = s
    /\ LET matches == {m \in LiveIDs(subscriptions) : subscriptions[m].SubID = s}
       IN IF matches = {}
          THEN /\ id = 0
               /\ delivered' = NoDelivery
          ELSE /\ id \in matches
               /\ delivered' = [s |-> s, conn |-> conn, id |-> id,
                                accountID |-> subscriptions[id].AccountID]
    /\ UNCHANGED <<serverSubs, wsVars>>
    /\ UNCHANGED OthersOfWSNotify

\* no connection has a subscription at the server
InitNotify ==
    /\ serverSubs = [c \in 0..MaxReconnects |-> [id \in RequestIDs |-> 0]]
    /\ delivered = NoDelivery

\* the connection breaks and is re-established while the server sends
\* notifications
NextNotify ==
    \/ readMessages
    \/ connect
    \/ \E order \in Orders(LiveIDs(subscriptions)) : reconnectSnapshot(order)
    \/ reconnectSend
    \/ reconnectReturn
    \/ \E id \in RequestIDs, s \in ServerIDs : serverSubscribes(id, s)
    \/ \E id \in RequestIDs : handleResponseOf(id)
    \/ \E s \in ServerIDs, id \in {0} \cup RequestIDs : handleAccountNotification(s, id)

----------------------------------------------------------------------------
(* pkg/subscription/websocket.go: the read loop and the connection it reads *)

IdleLoop == [pc |-> "top", conn |-> 0]

\* readMessages, lines 243-245: conn := c.conn under the read lock
readLoopTakesConn ==
    /\ readLoop.pc = "top"
    /\ readLoop' = [pc |-> "reading", conn |-> conn]
    /\ UNCHANGED broken
    /\ UNCHANGED OthersOfLoop

\* the current connection breaks
connectionBreaks ==
    /\ conn \notin broken
    /\ broken' = broken \cup {conn}
    /\ UNCHANGED readLoop
    /\ UNCHANGED OthersOfLoop

\* conn.ReadMessage on the connection taken: a message is handled and the
\* loop starts over, or the connection has broken and the read fails
readLoopReads ==
    /\ readLoop.pc = "reading"
    /\ readLoop' = IF readLoop.conn \in broken
                   THEN [readLoop EXCEPT !.pc = "failed"]
                   ELSE IdleLoop
    /\ UNCHANGED broken
    /\ UNCHANGED OthersOfLoop

\* lines 258-263: the read error is logged, c.connected = false under the
\* lock, continue
readLoopMarksDisconnected ==
    /\ readLoop.pc = "failed"
    /\ connected' = FALSE
    /\ readLoop' = IdleLoop
    /\ UNCHANGED <<conn, subscriptions, nextID, sent, app, rc, broken>>
    /\ UNCHANGED <<routerVars, cacheVars, tornVars, httpVars, rpcVars, refreshVars,
                   unitVars, pumpVars, readerVars, gatewayVars, confirmVars, notifyVars, mgrVars>>

InitLoop ==
    /\ readLoop = IdleLoop
    /\ broken = {}

\* the read loop, connections that break, and the reconnection ticker
NextLoop ==
    \/ readLoopTakesConn
    \/ connectionBreaks
    \/ readLoopReads
    \/ readLoopMarksDisconnected
    \/ connect
    \/ \E order \in Orders(LiveIDs(subscriptions)) : reconnectSnapshot(order)
    \/ reconnectSend
    \/ reconnectReturn

----------------------------------------------------------------------------
(* pkg/subscription: SubscribePool and UnsubscribePool                     *)

\* the VaultPool type assertion: the types of P2 and P3 have GetBaseVault and
\* GetQuoteVault, the type of P1 has not
VaultPool(p) == p # "P1"

\* getPoolAccounts: the pool account, and the two vaults of a VaultPool
PoolAccounts(p) ==
    IF VaultPool(p) THEN {<<p, a>> : a \in PumpAccounts}
    ELSE {<<p, "pool">>}

\* SubscribePool: nothing if the pool id is a key of sm.subscriptions;
\* otherwise SubscribeAccount for every account (a failure is logged and the
\* account skipped), then SetPool
SubscribePool(p, subscribed) ==
    /\ subscribed \subseteq PoolAccounts(p)
    /\ IF <<p, "pool">> \in smSubscriptions
       THEN /\ subscribed = {}
            /\ UNCHANGED <<smSubscriptions, smPools>>
       ELSE /\ smSubscriptions' = smSubscriptions \cup subscribed
            /\ smPools' = smPools \cup {p}
    /\ UNCHANGED OthersOfMgr

\* UnsubscribePool: Unsubscribe for every entry of sm.subscriptions (an
\* error is logged), every entry deleted, then RemovePool(poolID)
UnsubscribePool(p) ==
    /\ smSubscriptions' = {}
    /\ smPools' = smPools \ {p}
    /\ UNCHANGED OthersOfMgr

InitMgr ==
    /\ smSubscriptions = {}
    /\ smPools = {}

NextMgr ==
    \/ \E p \in Range(RouterPoolIds), subscribed \in SUBSET UNION {PoolAccounts(q) : q \in Range(RouterPoolIds)} :
          SubscribePool(p, subscribed)
    \/ \E p \in Range(RouterPoolIds) : UnsubscribePool(p)

----------------------------------------------------------------------------
(* Specifications                                                          *)

\* the value a group of variables keeps in the specifications of the others
IdleRouter ==
    /\ rPools = <<>>
    /\ rOutcome = [p \in Range(RouterPoolIds) |-> [err |-> TRUE, out |-> 0]]
    /\ rReserve = [p \in {q \in Range(RouterPoolIds) : PoolType(q) = "PumpAMMPool"} |-> 0]
    /\ rArgs = [dexes |-> <<>>, excludeDexes |-> <<>>, minLiquidityUSD |-> 0]
    /\ rPc = "idle"
    /\ rPending = {}
    /\ resultChan = <<>>
    /\ rClosed = FALSE
    /\ best = NoPool
    /\ maxOut = 0
    /\ rRet = NoRet

\* the initial states: every part as constructed; the router specification
\* starts from any pool list and any quote outcomes
StartRouter == InitRouter /\ InitCache /\ InitTorn /\ InitWS /\ InitHTTP /\ InitRPC /\ InitRefresh /\ InitUnit
               /\ InitPump /\ InitMgr /\ InitLoop /\ InitNotify /\ InitConfirm /\ InitGateway /\ InitReader

Start == IdleRouter /\ InitCache /\ InitTorn /\ InitWS /\ InitHTTP /\ InitRPC /\ InitRefresh /\ InitUnit
               /\ InitPump /\ InitMgr /\ InitLoop /\ InitNotify /\ InitConfirm /\ InitGateway /\ InitReader

SpecRouter == StartRouter /\ [][NextRouter]_vars

\* the goroutines of a call are scheduled: a quote task that can deliver
\* does, the waiter closes, the collector receives and returns
FairRouter ==
    /\ WF_vars(\E p \in Range(RouterPoolIds) : QuoteTask(p))
    /\ WF_vars(CloseChan)
    /\ WF_vars(Collect)
    /\ WF_vars(Return)

SpecRouterLive == StartRouter /\ [][NextRouter]_vars /\ FairRouter

SpecCache == Start /\ [][NextCache]_vars

SpecSeq == Start /\ [][NextSeq]_vars

SpecPush == Start /\ [][NextPush]_vars

SpecIndex == Start /\ [][NextIndex]_vars

SpecShared == Start /\ [][NextShared]_vars

SpecDecodeFail == Start /\ [][NextDecodeFail]_vars

SpecTorn == Start /\ [][NextTorn]_vars

SpecWS == Start /\ [][NextWS]_vars

\* the tables of a connected client: every request id unused, subscribed
\* and unconfirmed, or subscribed and confirmed by the server
SubscriptionTables ==
    {t \in [RequestIDs -> [ID : RequestIDs, AccountID : Accounts,
                           SubID : {0} \cup {ServerSubID(0, id) : id \in RequestIDs}]
                          \cup {NoSub}] :
        \A id \in RequestIDs :
           t[id] # NoSub => (t[id].ID = id /\ t[id].SubID \in {0, ServerSubID(0, id)})}

\* the client's connection breaks and is re-established
NextReconnect ==
    \/ readMessages
    \/ connect
    \/ \E order \in Orders(LiveIDs(subscriptions)) : reconnectSnapshot(order)
    \/ reconnectSend
    \/ reconnectReturn

\* a connected client with any table of subscriptions
StartReconnect ==
    /\ IdleRouter /\ InitCache /\ InitTorn /\ InitHTTP /\ InitRPC /\ InitRefresh
    /\ InitUnit /\ InitPump /\ InitMgr /\ InitLoop /\ InitNotify /\ InitConfirm /\ InitGateway /\ InitReader
    /\ conn = 0
    /\ connected = TRUE
    /\ subscriptions \in SubscriptionTables
    /\ nextID = MaxSubs + 1
    /\ sent = <<>>
    /\ app = IdleApp
    /\ rc = IdleRc

\* the ticker keeps firing and a dial eventually succeeds; the reconnect
\* in progress runs to its end
FairWS ==
    /\ WF_vars(connect)
    /\ WF_vars(\E order \in Orders(LiveIDs(subscriptions)) : reconnectSnapshot(order))
    /\ WF_vars(reconnectSend)
    /\ WF_vars(reconnectReturn)

SpecReconnect == StartReconnect /\ [][NextReconnect]_vars /\ FairWS

\* the quote service started with any value of the -slippage flag
StartHTTP ==
    /\ IdleRouter /\ InitCache /\ InitTorn /\ InitWS /\ InitRPC /\ InitRefresh
    /\ InitUnit /\ InitPump /\ InitMgr /\ InitLoop /\ InitNotify /\ InitConfirm /\ InitGateway /\ InitReader
    /\ qcSlippageBps \in ServiceSlippages
    /\ req = IdleReq
    /\ nReqs = 0

SpecHTTP == StartHTTP /\ [][NextHTTP]_vars

\* an RPC pool over any number of endpoints
StartRPC ==
    /\ IdleRouter /\ InitCache /\ InitTorn /\ InitWS /\ InitHTTP /\ InitRefresh
    /\ InitUnit /\ InitPump /\ InitMgr /\ InitLoop /\ InitNotify /\ InitConfirm /\ InitGateway /\ InitReader
    /\ rpN \in 1..MaxEndpoints
    /\ rpIndex = 0
    /\ rpTickets = 0
    /\ rpCallers = [g \in Getters |-> IdleGetter]
    /\ rpDone = {}

SpecRPC == StartRPC /\ [][NextRPC]_vars

\* a service with or without a subscription manager: NewSubscriptionManager
\* returns a connected client or fails
StartRefresh ==
    /\ IdleRouter /\ InitCache /\ InitTorn /\ InitHTTP /\ InitRPC /\ InitUnit
    /\ InitPump /\ InitMgr /\ InitLoop /\ InitNotify /\ InitConfirm /\ InitGateway /\ InitReader
    /\ useWebSocket \in BOOLEAN
    /\ conn = 0
    /\ connected = useWebSocket
    /\ subscriptions = [id \in RequestIDs |-> NoSub]
    /\ nextID = 1
    /\ sent = <<>>
    /\ app = IdleApp
    /\ rc = IdleRc
    /\ fallbackInterval = 0
    /\ rf = IdleRefresh

SpecRefresh == StartRefresh /\ [][NextRefresh]_vars

\* a call of FetchPoolsByPair with any mints, on a chain where any of the
\* program's accounts may fail to decode
StartFetch ==
    /\ IdleRouter /\ InitCache /\ InitTorn /\ InitWS /\ InitHTTP /\ InitRPC /\ InitRefresh
    /\ InitPump /\ InitMgr /\ InitLoop /\ InitNotify /\ InitConfirm /\ InitGateway /\ InitReader
    /\ \E b \in FetchMints, q \in FetchMints, d \in SUBSET AmmAccounts :
          fetch = [IdleFetch EXCEPT !.pc = "call", !.baseMint = b, !.quoteMint = q,
                                    !.decodable = d]
    /\ cpq = IdleCPQuote
    /\ wq = IdleWQuote

SpecFetch == StartFetch /\ [][NextFetch]_vars

\* a call of Quote on a decoded constant-product pool
StartCPQuote ==
    /\ IdleRouter /\ InitCache /\ InitTorn /\ InitWS /\ InitHTTP /\ InitRPC /\ InitRefresh
    /\ InitPump /\ InitMgr /\ InitLoop /\ InitNotify /\ InitConfirm /\ InitGateway /\ InitReader
    /\ fetch = IdleFetch
    /\ \E kind \in CPKinds, n \in FeeFields, d \in FeeFields,
          a \in VaultBalances, b \in VaultBalances, isA \in BOOLEAN,
          amount \in QuoteAmounts :
          /\ kind # "splswap" => (n = 0 /\ d = 0)
          /\ cpq = [IdleCPQuote EXCEPT !.pc = "call", !.kind = kind,
                                       !.fees = DecodeFees(kind, n, d),
                                       !.vaultA = a, !.vaultB = b,
                                       !.inputIsA = isA, !.amount = amount]
    /\ wq = IdleWQuote

SpecCPQuote == StartCPQuote /\ [][NextCPQuote]_vars

\* a call of Quote on a decoded Whirlpool pool
StartWQuote ==
    /\ IdleRouter /\ InitCache /\ InitTorn /\ InitWS /\ InitHTTP /\ InitRPC /\ InitRefresh
    /\ InitPump /\ InitMgr /\ InitLoop /\ InitNotify /\ InitConfirm /\ InitGateway /\ InitReader
    /\ fetch = IdleFetch
    /\ cpq = IdleCPQuote
    /\ \E f \in WhirlpoolFeeRates, l \in WhirlpoolLiquidities, q \in WhirlpoolSqrtPrices,
          m \in WhirlpoolInputMints, amount \in QuoteAmounts :
          wq = [IdleWQuote EXCEPT !.pc = "call",
                                  !.st = [FeeRate |-> f, Liquidity |-> l, SqrtPrice |-> q],
                                  !.inputMint = m, !.amount = amount]

SpecWQuote == StartWQuote /\ [][NextWQuote]_vars

SpecPump == Start /\ [][NextPump]_vars

\* a subscribed pool whose pair was quoted and indexed, its balances read
\* from the gateway by that first quote
StartReader ==
    /\ IdleRouter /\ InitCache /\ InitTorn /\ InitWS /\ InitHTTP /\ InitRPC /\ InitRefresh
    /\ InitUnit /\ InitPump /\ InitMgr /\ InitLoop /\ InitNotify /\ InitConfirm /\ InitGateway
    /\ socket = <<>>
    /\ arrived = 0
    /\ reader = IdleReader
    /\ recalc = IdleRecalc
    /\ \E b \in PumpBalances, q \in PumpBalances :
          /\ rdPool = AfterGatewayRead(NewPump, b, q)
          /\ rdOut = PumpQuoteOut(b, q, PumpAmountIn)

SpecReader == StartReader /\ [][NextReader]_vars

\* a quote service started with any number of endpoints
StartGateway ==
    /\ IdleRouter /\ InitCache /\ InitTorn /\ InitWS /\ InitHTTP /\ InitRefresh
    /\ InitUnit /\ InitPump /\ InitMgr /\ InitLoop /\ InitNotify /\ InitConfirm /\ InitGateway /\ InitReader
    /\ rpN \in 1..MaxEndpoints
    /\ rpIndex = 0
    /\ rpTickets = 0
    /\ rpCallers = [g \in Getters |-> IdleGetter]
    /\ rpDone = {}

SpecGateway == StartGateway /\ [][NextGateway]_vars

SpecConfirm == Start /\ [][NextConfirm]_vars

\* a connected client with any table of subscriptions; the server holds
\* the confirmed ones under the ids the table records
StartNotify ==
    /\ IdleRouter /\ InitCache /\ InitTorn /\ InitHTTP /\ InitRPC /\ InitRefresh
    /\ InitUnit /\ InitPump /\ InitMgr /\ InitLoop /\ InitConfirm /\ InitGateway /\ InitReader
    /\ conn = 0
    /\ connected = TRUE
    /\ subscriptions \in SubscriptionTables
    /\ nextID = MaxSubs + 1
    /\ sent = <<>>
    /\ app = IdleApp
    /\ rc = IdleRc
    /\ serverSubs = [c \in 0..MaxReconnects |->
                       [id \in RequestIDs |->
                           IF c = 0 /\ subscriptions[id] # NoSub
                           THEN subscriptions[id].SubID ELSE 0]]
    /\ delivered = NoDelivery

SpecNotify == StartNotify /\ [][NextNotify]_vars

SpecLoop == StartReconnect /\ [][NextLoop]_vars

SpecMgr == Start /\ [][NextMgr]_vars

----------------------------------------------------------------------------
(* Claims on the router                                                    *)

\* the pools of the finished call that passed the filters
Filtered == Range(filterPools(rPools, rArgs.dexes, rArgs.excludeDexes,
                             rArgs.minLiquidityUSD))
Succeeded == {p \in Filtered : ~rOutcome[p].err}

\* C1: when GetBestPoolWithFilter returns without error, the returned amount
\* is the maximum outAmount over the filtered pools whose quote succeeded,
\* and the returned pool is one whose quote returned that amount, whatever
\* the order in which the quote goroutines completed.
C1_BestIsMax ==
    (rPc = "done" /\ rRet.err = "nil") =>
        /\ rRet.pool \in Succeeded
        /\ rOutcome[rRet.pool].out = rRet.out
        /\ \A p \in Succeeded : rOutcome[p].out <= rRet.out

\* C1 witness: a call over three pools quoting 1, 2 and an error returned.
C1_Witness ==
    /\ rPc = "done" /\ rRet.err = "nil"
    /\ Cardinality(Filtered) = 3
    /\ Cardinality(Succeeded) = 2
    /\ rRet.out = 2

\* C2: the call returns the no-route error if and only if no filtered pool's
\* quote succeeded; with at least one successful quote (whatever its amount,
\* 0 included) it returns a pool and an amount.
C2_NoRouteIffNoSuccess ==
    (rPc = "done" /\ Filtered # {}) =>
        ((rRet.err # "nil") <=> (Succeeded = {}))

----------------------------------------------------------------------------
(* Claims on the quote cache                                               *)

\* the call c has run the router's fan-out over at least one pool
FannedOut(c) == calls[c].quoted # {}

\* C3: concurrent GetOrCalculateQuote calls with the same key, begun while
\* the key is absent from the cache, share a single router fan-out: of two
\* such overlapping calls at most one executes GetBestPoolWithFilter.
C3_SingleFanOut ==
    \A c \in Calls : \A d \in calls[c].with :
        ~(FannedOut(c) /\ FannedOut(d))

\* the token pair of a pool
PairOf(p) == {TokenMintA(p), TokenMintB(p)}

\* C6: every pool quoted by the router on behalf of a GetOrCalculateQuote
\* request (in, out, amount) has the token pair {in, out}.
C6_QuotedPoolsHavePair ==
    \A c \in Calls :
        calls[c].kind = "ondemand" =>
            \A p \in calls[c].quoted : PairOf(p) = {calls[c].key[1], calls[c].key[2]}

\* the call c has returned, the same caller's previous call was for the same
\* key and succeeded, and no pool update arrived since that call began
Consecutive(c) ==
    /\ calls[c].pc = "done"
    /\ calls[c].kind = "ondemand"
    /\ ~calls[c].dirty
    /\ calls[c].prev # NoPrev
    /\ calls[c].prev.key = calls[c].key

SameFilters(c) ==
    /\ calls[c].prev.dexes = calls[c].dexes
    /\ calls[c].prev.excludeDexes = calls[c].excludeDexes

SameOut(c) == calls[c].res.err = "nil" /\ calls[c].res.out = calls[c].prev.out

C9_CancelDiscards ==
    \A c \in Calls :
        calls[c].cancelled =>
            /\ calls[c].pc # "store"
            /\ (calls[c].pc = "done" => calls[c].res.err = "context canceled")

----------------------------------------------------------------------------
(* Claims on push updates                                                  *)

\* the cache keys whose winning pool is p
KeysWonBy(cch, p) == {k \in RequestKeys : cch[KeyOf(k)].pool = p}

\* C4: when a push update has changed the in-memory state of pool P, at the
\* completion of its handler every cache key whose winning pool is P holds
\* the amount P.Quote gives on the updated state.
C4_PushRecomputes ==
    [][\A p \in ChainPools :
          (nPushes' = nPushes + 1 /\ poolCache'[p].st # poolCache[p].st) =>
              \A k \in KeysWonBy(cache', p) :
                  LET q == Quote(poolCache'[p].st, TokenMintA(p), k[1],
                                 NewIntFromString(k[3]).val)
                  IN ~q.err /\ cache'[KeyOf(k)].out = q.out]_vars

\* C5: the slot recorded for a pool never decreases: a push update with a
\* smaller slot than LastSlot is ignored.
C5_SlotMonotonic ==
    [][\A p \in ChainPools :
          poolCache[p] # NoEntry =>
              poolCache'[p].LastSlot >= poolCache[p].LastSlot]_vars

----------------------------------------------------------------------------
(* Claims on the Whirlpool object and on the WebSocket client              *)

\* C8: a Quote running concurrently with a push update never observes a torn
\* state: the FeeRate, Liquidity and SqrtPrice it has read are those of one
\* complete state the pool had while the Quote ran.
C8_NoTornRead ==
    tQuote.pc \in {"done", "returned"} => tQuote.read \in tSeen

\* the requests the reconnect call has written
ReconnectRequests == SelectSeq(sent, LAMBDA r : r.by = "reconnect")

C11_ResubscribeBeforeNew ==
    \A i, j \in DOMAIN sent :
        (i < j /\ sent[i].by = "SubscribeAccount" /\ sent[i].conn > 0) =>
            ~(sent[j].by = "reconnect" /\ sent[j].ID < sent[i].ID)

----------------------------------------------------------------------------
(* Further claims on the router                                            *)

\* the position of a pool id in the lexicographic order of the ids
IdRank(p) == CHOOSE i \in DOMAIN RouterPoolIds : RouterPoolIds[i] = p

\* C12: when two or more pools return the same maximum outAmount, the call
\* returns the pool with the lexicographically smallest id among them,
\* whatever the order in which the quotes completed.
C12_TieSmallestId ==
    (rPc = "done" /\ rRet.err = "nil") =>
        \A p \in Succeeded :
            rOutcome[p].out = rRet.out => IdRank(rRet.pool) <= IdRank(p)

\* the protocol filters as the caller states them: the protocol name of p is
\* one of dexes when dexes is not empty, and is none of excludeDexes
PassesProtocolFilters(p) ==
    /\ (Len(rArgs.dexes) > 0 =>
           \E i \in DOMAIN rArgs.dexes : rArgs.dexes[i] = ProtocolName(p))
    /\ \A i \in DOMAIN rArgs.excludeDexes : rArgs.excludeDexes[i] # ProtocolName(p)

\* the pools a quote goroutine has been started for and whose result has not
\* been collected yet
BeingQuoted == rPending \cup {resultChan[i].pool : i \in DOMAIN resultChan}

\* C13: the returned pool satisfies the protocol filters (exact,
\* case-sensitive equality of names), no pool of a filtered-out protocol is
\* quoted, and without a liquidity floor the returned amount is the best
\* among the pools that remain after the protocol filters.
C13_FiltersRespected ==
    /\ \A p \in BeingQuoted : PassesProtocolFilters(p)
    /\ (rPc = "done" /\ rRet.err = "nil") =>
          /\ PassesProtocolFilters(rRet.pool)
          /\ rArgs.minLiquidityUSD = 0 =>
                \A p \in Range(rPools) :
                    (PassesProtocolFilters(p) /\ ~rOutcome[p].err) =>
                        rOutcome[p].out <= rRet.out

\* a call that excluded the protocol of the pool with the largest amount
\* returned the best of the two remaining pools
C13_Witness ==
    /\ rPc = "done" /\ rRet.err = "nil"
    /\ rArgs.excludeDexes = <<"orca">> /\ rArgs.dexes = <<>>
    /\ rArgs.minLiquidityUSD = 0
    /\ Len(rPools) = 3
    /\ ~rOutcome["P2"].err /\ rOutcome["P2"].out > rRet.out
    /\ rRet.out > 0
    /\ rOutcome["P1"].out # rOutcome["P3"].out

\* C14: for every positive minLiquidityUsd, a pool of a kind without a cheap
\* reserve proxy (any type other than the Raydium AMM / CPMM and Pump AMM
\* pools) that passes the protocol filters is not removed by the liquidity
\* floor.
C14_NoProxyPoolsKept ==
    (rPc # "idle" /\ rArgs.minLiquidityUSD > 0) =>
        \A p \in Range(rPools) :
            (PoolType(p) = "other" /\ PassesProtocolFilters(p)) => p \in Filtered

----------------------------------------------------------------------------
(* Claims on the /quote handler and the slippage threshold                 *)

\* otherAmountThreshold = floor(outAmount * (10000 - slippageBps) / 10000)
ThresholdIsFloor(q) == q.thr = (q.out * (10000 - q.bps)) \div 10000

\* the request has been answered with a quote carrying its own slippageBps
OverrideServed ==
    req.pc = "responded" /\ req.resp.status = 200 /\ req.slip # ""

OverrideDiffers == OverrideServed /\ Atoi(req.slip).val # qcSlippageBps

\* the response is the entry e with the slippageBps of the request and the
\* threshold recomputed from the outAmount of e
IsOverriddenCopy(q, e) ==
    /\ q.out = e.out
    /\ q.pool = e.pool
    /\ q.bps = Atoi(req.slip).val
    /\ q.thr = (e.out * (10000 - q.bps)) \div 10000

BadSlippage ==
    req.slip # "" /\ (Atoi(req.slip).err \/ Atoi(req.slip).val < 0
                          \/ Atoi(req.slip).val > 10000)

\* C17: a request whose slippageBps is outside [0, 10000] is rejected before
\* the quote cache is called: no GetOrCalculateQuote call is made for it and
\* the cache, the reverse index, the router's pools and the subscriptions
\* are as the request found them.
C17_RejectedBeforeCache ==
    (req.pc = "responded" /\ BadSlippage) =>
        /\ ~req.called
        /\ CacheState = req.before

ParseErrors == {"invalid input mint", "invalid output mint", "invalid amount"}

\* C18: GetOrCalculateQuote called with a malformed mint or with an amount
\* that is not a positive integer returns an error at once, without
\* discovery and without the router, and leaves the cache, the reverse
\* index, the router's pool list and the subscriptions unchanged.
C18_MalformedRejected ==
    /\ \A c \in Calls :
          (calls[c].kind = "ondemand" /\ calls[c].key \in MalformedKeys) =>
              /\ calls[c].pc = "done"
              /\ calls[c].res.err \in ParseErrors
              /\ calls[c].quoted = {}
              /\ CacheState = req.before
    /\ (req.called /\ req.key \in MalformedKeys) =>
          /\ req.callRes.err \in ParseErrors
          /\ req.resp.status = 500
          /\ CacheState = req.before

\* a call with the amount "0" was refused while the cache, the index, the
\* router and the pool cache were populated
C18_Witness ==
    /\ req.called /\ req.key = <<"SOL", "USDC", "0">>
    /\ req.callRes.err = "invalid amount"
    /\ cache[KeyOf(<<"SOL", "USDC", "100">>)] # NoQuote
    /\ routerPools # <<>>
    /\ handlers # {}

----------------------------------------------------------------------------
(* Claims on the reverse index                                             *)

\* C19: in every reachable state, the (inputMint, outputMint, amount) triple
\* of every cache entry is in the reverse index under the pool the entry
\* names as its winning pool, so a push update of that pool enumerates it.
C19_EntryIndexedUnderWinner ==
    \A k \in RequestKeys \cup MalformedKeys :
        cache[KeyOf(k)] # NoQuote =>
            k \in Range(poolToQuotes[cache[KeyOf(k)].pool])

\* an entry whose winning pool changed: the key is indexed under two pools,
\* the winner among them
C19_Witness ==
    \E k \in RequestKeys :
        /\ cache[KeyOf(k)] # NoQuote
        /\ Cardinality({p \in ChainPools : k \in Range(poolToQuotes[p])}) = 2
        /\ nPushes > 0

----------------------------------------------------------------------------
(* Claims on the RPC pool                                                  *)

\* the calls number a + 1 to a + len, in the order of their increments
CallWindow(a, len) == (a + 1)..(a + len)

\* every call of the window has returned
AllReturned(W) == \A t \in W : \E d \in rpDone : d.ticket = t

\* how many calls of the window returned the client c
ReturnedIn(W, c) == Cardinality({d \in rpDone : d.ticket \in W /\ d.client = c})

\* the counter wrapped to 0 between two calls of the window
WrapsIn(W) == \E t \in W : (t - 1) \in W /\ t % (2 ^ IdxBits) = 0

EachClientKTimesNoWrap ==
    rpN >= 2 =>
        \A a \in 0..MaxGetCalls, k \in 1..MaxGetCalls :
            LET W == CallWindow(a, k * rpN)
            IN (AllReturned(W) /\ (~WrapsIn(W) \/ (2 ^ IdxBits) % rpN = 0)) =>
                   \A c \in 0..(rpN - 1) : ReturnedIn(W, c) = k

\* six calls over three clients have returned, each client twice, and a
\* seventh is in flight
SixCallsReturned ==
    /\ rpN = 3
    /\ AllReturned(CallWindow(0, 6))
    /\ \A c \in 0..2 : ReturnedIn(CallWindow(0, 6), c) = 2
    /\ \E g \in Getters :
          rpCallers[g].pc = "return" /\ rpCallers[g].ticket = 7

----------------------------------------------------------------------------
(* Claims on the periodic refresh                                          *)

\* the goroutine is waiting on its ticker
Waiting == rf.pc = "wait"

\* C21: the fallback refresh follows push health: while the connection is up
\* the ticker's period is the lengthened one, and once the connection has
\* been down for longer than the configured interval, the last refresh began
\* no longer than the configured interval ago.
C21_RefreshFollowsPushHealth ==
    Waiting =>
        /\ (useWebSocket /\ connected) =>
               fallbackInterval = refreshInterval * FallbackFactor
        /\ (~connected /\ rf.downFor > refreshInterval) =>
               rf.elapsed <= refreshInterval

----------------------------------------------------------------------------
(* Claims on the constant-product protocols and pools                      *)

\* C22: FetchPoolsByPair surfaces gateway failures: a call in which either
\* of the two getProgramAccounts queries failed returns an error.
C22_GatewayFailureSurfaced ==
    (fetch.pc = "done" /\ (fetch.fwdFailed \/ fetch.revFailed)) => fetch.err # "nil"

\* the reserves of a call in the direction of the swap
ReserveIn == IF cpq.inputIsA THEN cpq.vaultA ELSE cpq.vaultB
ReserveOut == IF cpq.inputIsA THEN cpq.vaultB ELSE cpq.vaultA

\* effIn = amountIn - floor(amountIn * fN / fD) for fD > 0
EffIn(amount, fN, fD) == amount - MulQuo(amount, fN, fD)

\* the call is one the formula is defined for: a positive amount, a fee that
\* is a fraction of at most 1, a denominator that is not 0
FormulaDefined ==
    /\ cpq.amount > 0
    /\ cpq.fees.FeeDenominator > 0
    /\ cpq.fees.FeeNumerator <= cpq.fees.FeeDenominator
    /\ ReserveIn + EffIn(cpq.amount, cpq.fees.FeeNumerator, cpq.fees.FeeDenominator) > 0

\* floor(Ro * effIn / (Ri + effIn))
FormulaOut ==
    LET effIn == EffIn(cpq.amount, cpq.fees.FeeNumerator, cpq.fees.FeeDenominator)
    IN MulQuo(ReserveOut, effIn, ReserveIn + effIn)

\* C23: a constant-product Quote that has read its reserves returns exactly
\* floor(Ro * effIn / (Ri + effIn)) with effIn = amountIn - floor(amountIn *
\* fN / fD); reserves 1,000,000 / 2,000,000 with fee 25/10,000 and input
\* 10,000 of token A give 19,752.
C23_QuoteIsFormula ==
    (cpq.pc = "done" /\ cpq.reads = 1 /\ cpq.err # "failed to fetch vault balances"
        /\ FormulaDefined) =>
        /\ cpq.err = "nil"
        /\ cpq.out = FormulaOut
        /\ (/\ cpq.vaultA = 1000000 /\ cpq.vaultB = 2000000 /\ cpq.inputIsA
            /\ cpq.fees = [FeeNumerator |-> 25, FeeDenominator |-> 10000]
            /\ cpq.amount = 10000) => cpq.out = 19752

\* the same for fee fields that int64 holds
QuoteIsFormulaBelowSignBit ==
    (cpq.pc = "done" /\ cpq.err # "failed to fetch vault balances" /\ FormulaDefined
        /\ cpq.fees.FeeDenominator < 2 ^ (FeeBits - 1)) =>
        /\ cpq.err = "nil"
        /\ cpq.out = FormulaOut
        /\ (/\ cpq.vaultA = 1000000 /\ cpq.vaultB = 2000000 /\ cpq.inputIsA
            /\ cpq.fees = [FeeNumerator |-> 25, FeeDenominator |-> 10000]
            /\ cpq.amount = 10000) => cpq.out = 19752

\* the example of the spec has been quoted
ExampleQuoted ==
    /\ cpq.pc = "done" /\ cpq.err = "nil" /\ cpq.kind = "aldrin"
    /\ cpq.vaultA = 1000000 /\ cpq.vaultB = 2000000 /\ cpq.inputIsA
    /\ cpq.amount = 10000 /\ cpq.out = 19752

\* the quote of the finished call with the fee numerator n instead of its own
QuoteWithFeeNumerator(n) ==
    ConstantProduct(cpq.vaultA, cpq.vaultB, [cpq.fees EXCEPT !.FeeNumerator = n],
                    cpq.inputIsA, cpq.amount)

\* the numerators larger than the one of the finished call
LargerNumerators == {n \in FeeFields : n > cpq.fees.FeeNumerator}

\* a quote of a positive amount has returned an amount
Quoted == cpq.pc = "done" /\ cpq.err = "nil" /\ cpq.amount > 0

\* C26 as stated: with the reserves and everything else fixed, a larger
\* feeNumerator gives a strictly smaller outAmount for any positive input.
C26_FeeStrictlyDecreasesOut ==
    Quoted =>
        \A n \in LargerNumerators :
            /\ QuoteWithFeeNumerator(n).err = "nil"
            /\ QuoteWithFeeNumerator(n).out < cpq.out

\* C26 (amended): for fee numerators fN < fN' < fD, with fD below 2^63, the
\* quote with fN' returns an amount and it is not larger than the one with fN.
C26_FeeNeverIncreasesOut ==
    (Quoted /\ cpq.fees.FeeDenominator < 2 ^ (FeeBits - 1)) =>
        \A n \in LargerNumerators :
            n < cpq.fees.FeeDenominator =>
                /\ QuoteWithFeeNumerator(n).err = "nil"
                /\ QuoteWithFeeNumerator(n).out <= cpq.out

\* a quote whose amount the next larger fee numerator strictly lowers
C26_Witness ==
    /\ Quoted /\ cpq.kind = "splswap"
    /\ cpq.fees = [FeeNumerator |-> 25, FeeDenominator |-> 10000]
    /\ cpq.amount = 10000 /\ cpq.out > 0
    /\ QuoteWithFeeNumerator(26).out < cpq.out

----------------------------------------------------------------------------
(* Claims on the Whirlpool quote                                           *)

\* effIn = amountIn - floor(amountIn * feeRate / 1,000,000)
WhirlpoolEffIn == wq.amount - (wq.amount * wq.st.FeeRate) \div 1000000

\* C24: for a positive amount, liquidity > 0 and sqrtPriceX64 = Q > 0, Quote
\* returns floor(effIn * Q^2 / 2^128) from token A to token B and
\* floor(effIn * 2^128 / Q^2) from token B to token A, without error.
C24_WhirlpoolFormula ==
    (wq.pc = "done" /\ wq.amount > 0 /\ wq.st.Liquidity > 0 /\ wq.st.SqrtPrice > 0
        /\ wq.inputMint \in {TokenMintA("W1"), TokenMintB("W1")}) =>
        /\ ~wq.err
        /\ wq.inputMint = TokenMintA("W1") =>
              wq.out = (WhirlpoolEffIn * wq.st.SqrtPrice ^ 2) \div (Q64 ^ 2)
        /\ wq.inputMint = TokenMintB("W1") =>
              wq.out = (WhirlpoolEffIn * Q64 ^ 2) \div (wq.st.SqrtPrice ^ 2)

\* a quote with a fee, at a price that is not a power of two, in the
\* direction from token B to token A, rounded down
C24_Witness ==
    /\ wq.pc = "done" /\ ~wq.err
    /\ wq.amount = 10000 /\ wq.st.FeeRate = 30000 /\ wq.st.Liquidity > 0
    /\ wq.st.SqrtPrice = 3 /\ wq.inputMint = TokenMintB("W1")
    /\ wq.out > 0
    /\ (WhirlpoolEffIn * Q64 ^ 2) % (wq.st.SqrtPrice ^ 2) # 0

\* C25: Quote returns an error whenever the pool's liquidity is 0 or its
\* sqrtPrice is 0, in both directions and for every input amount.
C25_ErrorOnZeroLiquidityOrPrice ==
    (wq.pc = "done" /\ (wq.st.Liquidity = 0 \/ wq.st.SqrtPrice = 0)) => wq.err

----------------------------------------------------------------------------
(* Claims on the recomputation after a push update                         *)

\* C27: recomputing a dependent cache key after a push update performs no
\* gateway read, for every subscribed pool kind and whichever of the pool's
\* accounts was updated.
C27_RecalculateReadsNoGateway == pumpCache.recalcReads = 0

\* the on-demand calls that have quoted their pools and during which no push
\* notification arrived
QuietOnDemand ==
    {c \in Calls : /\ calls[c].kind = "ondemand"
                   /\ calls[c].pc \in {"store", "done"}
                   /\ ~calls[c].dirty}

\* the subscribed pools a push update has been applied to
Pushed == {p \in ChainPools : poolCache[p] # NoEntry /\ poolCache[p].LastSlot > 0}

\* C28: the pool state the router quotes for a subscribed pool is the state
\* the freshness layer mutates: an on-demand call that begins after a push
\* update to the pool was applied quotes the pool's updated state, also
\* after a periodic refresh has re-discovered the pair.
C28_RouterQuotesPushedState ==
    \A c \in QuietOnDemand : \A p \in calls[c].quoted \cap Pushed :
        ObjState(ObjOf(routerPools, p)) = poolCache[p].st

\* the same with a pool account update that changed the state: the router
\* quoted fields that differ from the pool cache's in what Quote reads
RouterQuotedStaleState ==
    \E c \in QuietOnDemand : \E p \in calls[c].quoted \cap Pushed :
        /\ calls[c].res.err = "nil"
        /\ calls[c].res.pool = p
        /\ QuoteResult(routerPools, p, calls[c].key).out #
               Quote(poolCache[p].st, TokenMintA(p), calls[c].key[1],
                     NewIntFromString(calls[c].key[3]).val).out

-----------------------------------------------------------------------------
(* Claims on the serialization of recomputations per cache key             *)

\* the call c writes its entry in this step
Stores(c) == calls[c].pc = "store" /\ calls'[c].pc = "done"

\* the quote of the winning pool of the call c on the state the pool object
\* of the router holds now
QuoteNow(c) == QuoteResult(routerPools, calls[c].res.pool, calls[c].key).out

\* the call c, between its read of the pool state and its write, holds a
\* result the pool state it read no longer gives, while the entry of its
\* key was computed from the state the pool has now
HoldsOlder(c) ==
    /\ calls[c].pc = "store"
    /\ poolCache[calls[c].res.pool].LastSlot > 0
    /\ QuoteNow(c) # calls[c].res.out
    /\ cache[KeyOf(calls[c].key)] = CachedQuote(calls[c].res.pool, QuoteNow(c))

\* C29: for a fixed cache key the recomputations are serialized, so an
\* entry computed from an older pool state never overwrites an entry
\* computed from a newer pool state: no call writes its entry while it
\* holds a result older than the entry that is there.
C29_OlderNeverOverwritesNewer ==
    [][\A c \in Calls : Stores(c) => ~HoldsOlder(c)]_vars

\* no recomputation by a push update writes an entry while a call on the
\* same key is between its read of the pool state and its write
NoPushWriteDuringCall ==
    [][\A c \in Calls :
          (calls[c].pc = "store" /\ nPushes' # nPushes)
              => cache'[KeyOf(calls[c].key)] = cache[KeyOf(calls[c].key)]]_vars

-----------------------------------------------------------------------------
(* Claims on the push reader                                               *)

\* a recalculation triggered by a push update is running
Recomputing == recalc.pc # "idle"

\* C30: the push reader only dispatches: while a recalculation triggered
\* by a push update is running, its gateway read included, the reader is
\* not blocked: with a message waiting on the connection it is at its read.
C30_ReaderNotBlocked ==
    (Recomputing /\ socket # <<>>) => reader.pc = "read"

\* no message is read while a recalculation waits for the gateway
ReaderWaitsForGateway ==
    [][recalc.pc = "gateway" => (socket' = socket \/ Len(socket') > Len(socket))]_vars

\* a message waits on the connection while the reader is inside the handler
\* whose recalculation waits for the gateway
ReaderBlockedOnGateway ==
    /\ recalc.pc = "gateway"
    /\ reader.pc = "handler"
    /\ socket # <<>>

-----------------------------------------------------------------------------
(* Claims on a push update that fails to decode                            *)

\* a push update was handled in this step
PushHandled == nPushes' = nPushes + 1

\* the pools of the pool cache
Cached == {p \in ChainPools : poolCache[p] # NoEntry}

\* C31: when a push update for a pool fails to decode, the pool stays in
\* the pool cache, its dependent cache entries are not recomputed, and the
\* failed update does not advance the pool's freshness metadata (LastSlot).
C31_FailedUpdateLeavesPoolStale ==
    [][PushHandled =>
          /\ \A p \in Cached : poolCache'[p] # NoEntry
          /\ cache' = cache
          /\ \A p \in Cached : poolCache'[p].LastSlot = poolCache[p].LastSlot]_vars

\* a failed update removes no pool, recomputes no entry and leaves the
\* decoded state of every pool as it was
FailedUpdateKeepsPoolAndEntries ==
    [][PushHandled =>
          /\ \A p \in Cached : poolCache'[p] # NoEntry
          /\ cache' = cache
          /\ \A p \in Cached : poolCache'[p].st = poolCache[p].st]_vars

\* a pool whose slot was advanced although no update of it ever decoded
SlotAdvancedByFailedUpdate ==
    \E p \in Cached : poolCache[p].LastSlot > 0 /\ nPushes > 0

-----------------------------------------------------------------------------
(* Claims on the endpoints of the gateway calls                            *)

\* the endpoints the gateway calls went to
EndpointsUsed == {gwLog[i].endpoint : i \in DOMAIN gwLog}

\* C32: with n > 1 endpoints the gateway calls of discovery and of pool
\* quotes are spread round-robin: n successive calls reach all n endpoints.
C32_CallsSpreadOverEndpoints ==
    (rpN > 1 /\ Len(gwLog) >= rpN) => EndpointsUsed = 0..(rpN - 1)

\* every gateway call goes to the endpoint chosen at construction
AllCallsOnOneEndpoint == \A i \in DOMAIN gwLog : gwLog[i].endpoint = solClient

\* three endpoints, six calls of both kinds, one endpoint used
SixCallsOneEndpoint ==
    /\ rpN = 3
    /\ Len(gwLog) = 6
    /\ {gwLog[i].by : i \in DOMAIN gwLog} = GatewayCallers
    /\ Cardinality(EndpointsUsed) = 1

-----------------------------------------------------------------------------
(* Claims on the fan-out of the router                                     *)

\* the pools whose result is in the channel
InChan == {resultChan[i].pool : i \in DOMAIN resultChan}

\* the fan-out over the filtered pools: one task per pool and no other, no
\* task waits at its send, no result is in the channel twice or again after
\* it was sent, the channel is closed only after every task has finished,
\* and the call returns with every result received
FanOutSafe ==
    /\ rPc = "collect" =>
          /\ rPending \cup InChan \subseteq Range(FilteredNow)
          /\ rPending # {} => Len(resultChan) < ChanCap(FilteredNow)
          /\ Cardinality(InChan) = Len(resultChan)
          /\ rPending \cap InChan = {}
          /\ rClosed => rPending = {}
    /\ (rPc = "done" /\ Len(FilteredNow) > 0) =>
          rPending = {} /\ resultChan = <<>> /\ rClosed

\* C33: GetBestPoolWithFilter over n filtered pools spawns exactly n quote
\* tasks, no task blocks when delivering its result, each result is consumed
\* exactly once, the channel is closed only after all tasks have finished,
\* and the call terminates whenever every quote terminates.
C33_FanOutDeliversAndTerminates ==
    /\ []FanOutSafe
    /\ (rPc = "collect") ~> (rPc = "done")

\* a call over three filtered pools has returned
C33_Witness ==
    /\ rPc = "done"
    /\ Len(FilteredNow) = 3
    /\ rClosed
    /\ resultChan = <<>>

-----------------------------------------------------------------------------
(* Claims on the reconnection ticker                                       *)

\* C34: after a read error marked the client disconnected, the ticker
\* attempts a reconnect on every tick until a dial succeeds: if dialing
\* eventually succeeds the client is eventually connected again; and while
\* the client is connected a tick triggers no reconnect.
C34_ReconnectsUntilConnected ==
    /\ [][conn' # conn => ~connected]_vars
    /\ (~connected /\ conn < MaxReconnects) ~> connected

\* the client is connected again on a new connection, with a subscription
\* resubscribed on it
C34_Witness ==
    /\ conn = MaxReconnects
    /\ connected
    /\ \E i \in DOMAIN sent : sent[i].by = "reconnect"

-----------------------------------------------------------------------------
(* Claims on the reverse index                                             *)

\* C35: each cached key is indexed under exactly one pool: a triple is in
\* the reverse-index list of a pool only if the key's entry names that pool
\* as its winning pool.
C35_IndexedUnderWinnerOnly ==
    \A p \in ChainPools : \A k \in Range(poolToQuotes[p]) :
        cache[KeyOf(k)].pool = p

\* a push update never overwrites the entry of a key whose winning pool is
\* another pool than the entry written
PushWritesWinnerOnly ==
    [][PushHandled =>
          \A k \in RequestKeys :
             cache'[KeyOf(k)] # cache[KeyOf(k)]
                 => cache'[KeyOf(k)].pool = cache[KeyOf(k)].pool]_vars

\* a key indexed under two pools
IndexedUnderTwoPools ==
    \E p, q \in ChainPools : \E k \in Range(poolToQuotes[p]) :
        p # q /\ k \in Range(poolToQuotes[q])

-----------------------------------------------------------------------------
(* Claims on filtered requests                                             *)

\* the call c carries a filter
HasFilters(c) == Len(calls[c].dexes) > 0 \/ Len(calls[c].excludeDexes) > 0

\* C36: a GetOrCalculateQuote call with filters does not change what
\* unfiltered lookups return: the cache is the same before and after it.
C36_FilteredCallLeavesCache ==
    [][\A c \in Calls : (calls[c].kind = "ondemand" /\ HasFilters(c)) =>
          (calls'[c] # calls[c] => cache' = cache)]_vars

\* a filtered call does not replace an entry that unfiltered lookups
\* already return
FilteredCallKeepsEntry ==
    [][\A c \in Calls :
          (Stores(c) /\ HasFilters(c) /\ cache[KeyOf(calls[c].key)] # NoQuote)
              => cache'[KeyOf(calls[c].key)] = cache[KeyOf(calls[c].key)]]_vars

-----------------------------------------------------------------------------
(* Claims on the confirmation of a subscription                            *)

\* the subscriptions SubscribeAccount has stored whose confirmation the
\* reader has processed
Confirmed ==
    {id \in RequestIDs : subscriptions[id] # NoSub /\ <<conn, id>> \in answered}

\* C37: in every interleaving of SubscribeAccount with the reader, once
\* the server's confirmation has been processed the subscription's SubID
\* is the server-assigned id, even if the confirmation arrived before
\* SubscribeAccount stored the subscription.
C37_ConfirmedHasServerID ==
    \A id \in Confirmed : subscriptions[id].SubID = ServerSubID(conn, id)

\* a subscription confirmed after it was stored has the server's id
StoredThenConfirmed ==
    \E id \in Confirmed : subscriptions[id].SubID = ServerSubID(conn, id)

\* every subscription is stored, every confirmation is processed, and a
\* subscription is left without the server's id
ConfirmationLost ==
    /\ app.pc = "idle"
    /\ \E id \in Confirmed : subscriptions[id].SubID = 0

-----------------------------------------------------------------------------
(* Claims on the delivery of account notifications                         *)

\* C38: a notification carrying the server id s is delivered only to the
\* handler of the subscription the server confirmed with s on the current
\* connection, with that subscription's account id; never to a
\* subscription that is unconfirmed or holds an id of a previous connection.
C38_DeliveredToConfirmedOnly ==
    delivered # NoDelivery =>
        serverSubs[delivered.conn][delivered.id] = delivered.s

\* on the first connection every notification reaches the subscription
\* the server confirmed
DeliveredRightBeforeReconnect ==
    (delivered # NoDelivery /\ delivered.conn = 0) =>
        serverSubs[delivered.conn][delivered.id] = delivered.s

\* a notification of the new connection was handed to a subscription that
\* holds the id from the connection before, with another account's id
DeliveredOnStaleID ==
    /\ delivered # NoDelivery
    /\ delivered.conn > 0
    /\ serverSubs[delivered.conn][delivered.id] # delivered.s
    /\ \E r \in RequestIDs :
          /\ serverSubs[delivered.conn][r] = delivered.s
          /\ subscriptions[r] # NoSub
          /\ subscriptions[r].AccountID # delivered.accountID

-----------------------------------------------------------------------------
(* Claims on the connected flag                                            *)

\* C39: the connected flag tracks the current connection: a read error
\* observed on a connection that a successful reconnect has replaced never
\* marks the client disconnected.
C39_StaleErrorIgnored ==
    [][(connected /\ ~connected') => readLoop.conn = conn]_vars

\* a client is not marked disconnected while its current connection has
\* not broken
DisconnectedOnlyIfBroken == ~connected => conn \in broken

\* the client is marked disconnected on a connection that never broke, so
\* the next tick dials and resubscribes once more
DisconnectedOnHealthyConnection ==
    /\ ~connected
    /\ conn > 0
    /\ conn \notin broken
    /\ rc.pc = "idle"

-----------------------------------------------------------------------------
(* Claims on UnsubscribePool                                               *)

\* the subscriptions of the accounts of the pool q
SubscriptionsOf(q) == smSubscriptions \cap PoolAccounts(q)

\* C40: UnsubscribePool(P) cancels only the subscriptions of P's own
\* accounts and removes only P from the pool cache: the subscriptions and
\* the cached state of every other pool are unchanged.
C40_UnsubscribeTouchesOnlyItsPool ==
    [][\A p \in Range(RouterPoolIds) :
          UnsubscribePool(p) =>
              \A q \in Range(RouterPoolIds) \ {p} :
                 /\ smSubscriptions' \cap PoolAccounts(q) = SubscriptionsOf(q)
                 /\ (q \in smPools') = (q \in smPools)]_vars

\* UnsubscribePool removes no other pool from the pool cache
UnsubscribeKeepsOtherPoolsCached ==
    [][\A p \in Range(RouterPoolIds) :
          UnsubscribePool(p) =>
              \A q \in Range(RouterPoolIds) \ {p} : (q \in smPools') = (q \in smPools)]_vars

\* a pool in the pool cache that lost every subscription
CachedWithoutSubscription ==
    \E q \in smPools : SubscriptionsOf(q) = {} /\ Cardinality(smPools) = 2

====
